---- MODULE Spec2Model ----
(***************************************************************************)
(* The resolve -> acquire -> analyze pipeline of astronomia-galaxy-api:    *)
(* AgentRunner.run / AgentRunner.run_stream on top of                      *)
(* TaskOrchestrator.run_stream and _resolve_fetch_and_download, with the   *)
(* name resolver, the SDSS URL builder, the SkyView query, the image       *)
(* download and the artifact store as collaborators whose outcome is       *)
(* chosen nondeterministically at each call.                               *)
(*                                                                         *)
(* One behaviour is one pipeline run of one request.  A step is the code   *)
(* executed between two suspension points of the generator: a yield, a     *)
(* network call or a write to the artifact store.                          *)
(***************************************************************************)
EXTENDS Integers, Sequences, FiniteSets, TLC

\* Python's None, for the optional string fields of a request.
NONE == "None"

(***************************************************************************)
(* Strings.  The model's strings are a finite alphabet; str.strip(),       *)
(* str.lower() and str.upper() are tabulated over it.                      *)
(***************************************************************************)
Strip(s) ==
    CASE s = " " -> ""
      [] s = " Optical " -> "Optical"
      [] OTHER -> s

Lower(s) ==
    CASE s = "Optical" -> "optical"
      [] s = "SDSS" -> "sdss"
      [] s = "GALEX" -> "galex"
      [] s = "M81" -> "m81"
      [] OTHER -> s

Upper(s) ==
    CASE s = "sdss" -> "SDSS"
      [] s = "galex" -> "GALEX"
      [] OTHER -> s

\* Truthiness of an optional string: None and "" are falsy.
Truthy(s) == s # NONE /\ s # ""

(***************************************************************************)
(* Input alphabet of a request.                                            *)
(***************************************************************************)
Entries == {"AgentRunner.run", "AgentRunner.run_stream", "TaskOrchestrator.run_stream"}

RequestIds == {"r1"}

\* target: None, or Target(name=...)
TargetNames == {NONE, "", "M81", "from conversation"}

Tasks == {"segment", "measure_basic", "morphology_summary", "fetch_image"}

\* image_url: None, the empty string, or a reference supplied by the caller
SUPPLIED == "https://example.org/ref.jpg"
ImageUrls == {NONE, "", SUPPLIED}

\* options["catalog"] and options["band"] (None = key absent)
CatalogHints == {NONE, "", "SDSS", "sdss", "GALEX", " "}
BandHints == {NONE, "", "visible", " Optical ", "infrared", "xray", " "}

\* The LLM's structured answer to a natural-language request (enrich_request).
LlmNames == {NONE, "M81"}
LlmBands == {NONE, "infrared"}

(***************************************************************************)
(* galaxy_core.domain.imaging                                              *)
(***************************************************************************)
BAND_TO_SURVEY ==
    [b \in {"visible", "optical", "infrared", "ir", "ultraviolet", "uv"} |->
        CASE b \in {"visible", "optical"} -> "DSS"
          [] b \in {"infrared", "ir"} -> "2MASS-J"
          [] OTHER -> "GALEX"]

\* dict.get: None for a key that is not in the table
BandToSurveyGet(b) == IF b \in DOMAIN BAND_TO_SURVEY THEN BAND_TO_SURVEY[b] ELSE NONE

(***************************************************************************)
(* galaxy_core.application.resolve_and_fetch_service.resolve_and_fetch     *)
(* name: the stripped target name or NONE; coords: ra_deg and dec_deg      *)
(* given.  sesame and skyview are the outcomes of the two network calls,   *)
(* used only if the call is made.  The result tells whether a URL was      *)
(* obtained, why not, which survey, and which network calls were made.     *)
(***************************************************************************)
SesameOutcomes == {"ok", "fail"}
SkyviewOutcomes == {"url", "nolink", "neterr"}

SurveyOf(catalog, band) ==
    IF catalog # NONE /\ Strip(catalog) # "" THEN Strip(catalog)
    ELSE IF band # NONE /\ Strip(band) # "" THEN
        (IF BandToSurveyGet(Lower(Strip(band))) = NONE
         THEN "!unknown_band"
         ELSE BandToSurveyGet(Lower(Strip(band))))
    ELSE "!no_band_or_catalog"

ResolveAndFetch(name, coords, catalog, band, sesame, skyview) ==
    LET byName == name # NONE /\ Strip(name) # ""
        net1 == IF byName THEN <<"sesame">> ELSE <<>>
        survey == SurveyOf(catalog, band)
    IN  IF ~byName /\ ~coords
        THEN [ok |-> FALSE, cause |-> "no_target", survey |-> NONE, net |-> <<>>]
        ELSE IF byName /\ sesame = "fail"
        THEN [ok |-> FALSE, cause |-> "sesame", survey |-> NONE, net |-> net1]
        ELSE IF survey \in {"!unknown_band", "!no_band_or_catalog"}
        THEN [ok |-> FALSE, cause |-> survey, survey |-> NONE, net |-> net1]
        ELSE IF Upper(survey) = "SDSS"
        THEN [ok |-> TRUE, cause |-> "", survey |-> survey, net |-> net1]
        ELSE IF skyview = "url"
        THEN [ok |-> TRUE, cause |-> "", survey |-> survey,
              net |-> Append(net1, "skyview")]
        ELSE [ok |-> FALSE,
              cause |-> IF skyview = "nolink" THEN "skyview_nolink" ELSE "skyview_neterr",
              survey |-> NONE, net |-> Append(net1, "skyview")]

(***************************************************************************)
(* TaskOrchestrator._resolve_fetch_and_download: the attempt list.         *)
(* An attempt is <<catalog, band>>.                                        *)
(***************************************************************************)
\* Mutant of PlanAttempts: the branches are not exclusive, a catalog hint
\* keeps the band fallback.
PlanAttemptsKeepsFallback(catalog_opt, band_opt) ==
    (IF Truthy(catalog_opt) THEN << <<Strip(catalog_opt), NONE>> >> ELSE <<>>)
    \o (IF Truthy(band_opt) /\ Lower(Strip(band_opt)) \in {"visible", "optical"}
        THEN << <<"SDSS", NONE>> >> ELSE <<>>)
    \o (IF Truthy(band_opt) THEN << <<NONE, Strip(band_opt)>> >> ELSE <<>>)
    \o (IF ~Truthy(catalog_opt) /\ ~Truthy(band_opt)
        THEN << <<"SDSS", NONE>> >> ELSE <<>>)

\* Mutants of PlanAttempts: the band is compared without lower-casing it; the
\* SDSS attempt is put first for every band.
PlanAttemptsCaseSensitive(catalog_opt, band_opt) ==
    IF Truthy(catalog_opt)
    THEN << <<Strip(catalog_opt), NONE>> >>
    ELSE IF Truthy(band_opt)
    THEN (IF Strip(band_opt) \in {"visible", "optical"}
          THEN << <<"SDSS", NONE>> >> ELSE <<>>)
         \o << <<NONE, Strip(band_opt)>> >>
    ELSE << <<"SDSS", NONE>> >>

PlanAttemptsSdssFirstAlways(catalog_opt, band_opt) ==
    IF Truthy(catalog_opt)
    THEN << <<Strip(catalog_opt), NONE>> >>
    ELSE IF Truthy(band_opt)
    THEN << <<"SDSS", NONE>>, <<NONE, Strip(band_opt)>> >>
    ELSE << <<"SDSS", NONE>> >>

PlanAttempts(catalog_opt, band_opt) ==
    IF Truthy(catalog_opt)
    THEN << <<Strip(catalog_opt), NONE>> >>
    ELSE IF Truthy(band_opt)
    THEN (IF Lower(Strip(band_opt)) \in {"visible", "optical"}
          THEN << <<"SDSS", NONE>> >> ELSE <<>>)
         \o << <<NONE, Strip(band_opt)>> >>
    ELSE << <<"SDSS", NONE>> >>

\* label = catalog_param or band_param or "default"
Label(att) ==
    IF Truthy(att[1]) THEN att[1] ELSE IF Truthy(att[2]) THEN att[2] ELSE "default"

(***************************************************************************)
(* galaxy_agent.artifacts.ArtifactStore: artifacts/<request_id>/<file>.    *)
(* A save creates the request directory, then writes the file; either can  *)
(* fail.                                                                   *)
(***************************************************************************)
WriteOutcomes == {"ok", "mkdir_fail", "write_fail"}

\* base_dir / request_id / file, for the request id of the run
ArtifactPath(request_id, file) ==
    CASE file = "image.jpg" -> "artifacts/r1/image.jpg"
      [] file = "mask.png" -> "artifacts/r1/mask.png"
      [] file = "measurements.json" -> "artifacts/r1/measurements.json"
      [] OTHER -> "artifacts/r1/report.txt"

StoreAfter(st, file, outcome) ==
    CASE outcome = "ok" -> [dir |-> TRUE, files |-> st.files \cup {file}]
      [] outcome = "write_fail" -> [dir |-> TRUE, files |-> st.files]
      [] OTHER -> st

(***************************************************************************)
(* State of one run.                                                       *)
(***************************************************************************)
VARIABLES
    entry,      \* the entry point the caller uses
    original,   \* the caller's request object
    request,    \* the local `request` / `enriched` / `resolved` of the running code
    pc,         \* where the run is suspended
    attempts,   \* _resolve_fetch_and_download: attempts
    idx,        \* index of the attempt being executed (1-based)
    errors,     \* _resolve_fetch_and_download: errors
    events,     \* the events yielded so far by the (outermost) generator
    artifacts,  \* run_stream: artifacts
    results,    \* run_stream: results (its keys)
    response,   \* run_stream: response built by _build_response / early return
    result,     \* what AgentRunner.run returned
    failure,    \* the exception raised, if any
    store,      \* the artifact store on disk
    calls,      \* history: network calls made, each with its attempt index
    stages,     \* history: pipeline stages whose code was entered
    runs,       \* the runs that share one ArtifactStore: request id, saves to come
    disk,       \* the paths that exist under the ArtifactStore
    analysis,   \* the analyzer's values: image, mask, segmentation, measurements
    geo,        \* a coordinate query: its inputs, the ResolvedTarget, the SDSS URL
    reply       \* an HTTP response body given to a client, and what the client made of it

pipelineVars == <<entry, original, request, pc, attempts, idx, errors, events, artifacts,
                  results, response, result, failure, store, calls, stages>>

vars == <<pipelineVars, runs, disk, analysis, geo, reply>>

\* No image has been loaded, no coordinate query made.
NoAnalysis == [image |-> <<>>, mask |-> <<>>, segmentations |-> <<>>, measured |-> <<>>]
NoReply == [service |-> NONE, body |-> <<>>, chunkings |-> <<>>, results |-> <<>>]
NoGeo == [query |-> NONE, resolved |-> <<>>, url |-> <<>>]

NoFailure == [kind |-> "none", errors |-> <<>>, n |-> 0]
NoResponse == [request_id |-> NONE, status |-> "none", summary |-> "",
               results |-> {}, artifacts |-> <<>>]

\* AnalyzeRequest: the validator wants natural language, or target and task.
\* coords: options carries both ra_deg and dec_deg; the numeric options
\* (size_arcmin, ra_deg, dec_deg) are numbers, so float() does not raise.
\* message: the request carries natural language (message or messages).
Requests ==
    {r \in [request_id : RequestIds, target : TargetNames, task : Tasks \cup {NONE},
            image_url : ImageUrls, catalog : CatalogHints, band : BandHints,
            coords : BOOLEAN, message : BOOLEAN, out_of_scope : BOOLEAN] :
        /\ r.message \/ (r.target # NONE /\ r.task # NONE)
        /\ ~r.out_of_scope}

Init ==
    /\ entry \in Entries
    /\ original \in Requests
    /\ request = original
    /\ pc = IF entry = "TaskOrchestrator.run_stream" THEN "orch" ELSE "enrich"
    /\ attempts = <<>>
    /\ idx = 0
    /\ errors = <<>>
    /\ events = <<>>
    /\ artifacts = <<>>
    /\ results = {}
    /\ response = NoResponse
    /\ result = NoResponse
    /\ failure = NoFailure
    /\ store = [dir |-> FALSE, files |-> {}]
    /\ calls = <<>>
    /\ stages = <<>>
    /\ runs = <<>>
    /\ disk = {}
    /\ analysis = NoAnalysis
    /\ geo = NoGeo
    /\ reply = NoReply

(***************************************************************************)
(* Control transfer.  Continue: the code goes on to the next suspension    *)
(* point, having yielded evs.  Raise: an exception leaves                  *)
(* TaskOrchestrator.run_stream (and TaskOrchestrator.run) and reaches the  *)
(* `except Exception` of the AgentRunner entry point, if that is the entry.*)
(***************************************************************************)
Continue(next, evs) ==
    /\ pc' = next
    /\ events' = events \o evs
    /\ UNCHANGED <<failure, result>>

ErrorResponse ==
    [request_id |-> original.request_id, status |-> "error", summary |-> "error_summary",
     results |-> {}, artifacts |-> <<>>]

\* Mutants of Raise: the stream ends without an error event; run lets the
\* exception through.
RaiseWithoutErrorEvent(exc) ==
    /\ failure' = exc
    /\ pc' = IF entry = "TaskOrchestrator.run_stream" THEN "raised" ELSE "done"
    /\ result' = IF entry = "AgentRunner.run" THEN ErrorResponse ELSE result
    /\ UNCHANGED events

RaisePropagates(exc) ==
    /\ failure' = exc
    /\ pc' = "raised"
    /\ UNCHANGED <<events, result>>

Raise(exc) ==
    /\ failure' = exc
    /\ CASE entry = "AgentRunner.run" ->
              /\ pc' = "done"
              /\ result' = ErrorResponse
              /\ UNCHANGED events
         [] entry = "AgentRunner.run_stream" ->
              /\ pc' = "done"
              /\ events' = Append(events, [type |-> "error", body |-> exc.kind])
              /\ UNCHANGED result
         [] OTHER ->
              /\ pc' = "raised"
              /\ UNCHANGED <<events, result>>

Exc(kind) == [kind |-> kind, errors |-> <<>>, n |-> 0]

Status(msg) == [type |-> "status", body |-> msg]

(***************************************************************************)
(* LangChainBackend.enrich_request                                         *)
(***************************************************************************)
\* The requests enrich_request can return for req, when it returns.
Enriched(req) ==
    IF req.target # NONE /\ req.task # NONE THEN {req}
    ELSE IF ~req.message THEN {req}
    ELSE
        \* the answer is not JSON: the request is returned as it is
        {req}
        \cup
        \* can_fulfill is false and a decline_reason is given
        {[req EXCEPT !.target = IF req.target # NONE THEN req.target
                                ELSE IF Truthy(name) THEN name ELSE "",
                     !.task = IF want THEN "morphology_summary" ELSE "fetch_image",
                     !.out_of_scope = TRUE] :
            name \in LlmNames, want \in BOOLEAN}
        \cup
        {[req EXCEPT !.target = IF req.target # NONE THEN req.target
                                ELSE IF Truthy(name) THEN name ELSE NONE,
                     !.task = IF want THEN "morphology_summary" ELSE "fetch_image",
                     !.band = IF Truthy(band) THEN band ELSE req.band,
                     !.coords = req.coords \/ coords] :
            name \in LlmNames, want \in BOOLEAN, band \in LlmBands, coords \in BOOLEAN}

\* It raises only on the natural-language path (no API key, the LLM call fails).
EnrichCanRaise(req) == ~(req.target # NONE /\ req.task # NONE) /\ req.message

EnrichRequest ==
    /\ pc = "enrich"
    /\ \/ /\ EnrichCanRaise(request)
          /\ Raise(Exc("enrich"))
          /\ UNCHANGED request
       \/ /\ request' \in Enriched(request)
          /\ Continue("guard", <<>>)
    /\ UNCHANGED <<runs, disk, analysis, geo, reply, entry, original, attempts, idx, errors, artifacts, results,
                   response, store, calls, stages>>

(***************************************************************************)
(* AgentRunner.run / run_stream after enrichment: decline, _resolve_request*)
(* and the blank-target guard.                                             *)
(***************************************************************************)
DEFAULT_TASK == "morphology_summary"

ResolveRequest(req) ==
    IF req.target # NONE /\ req.task # NONE THEN req
    ELSE [req EXCEPT !.target = IF req.target # NONE THEN req.target
                                ELSE "from conversation",
                     !.task = IF req.task # NONE THEN req.task ELSE DEFAULT_TASK]

\* Mutant of BlankTarget: the placeholder name is taken for a target.
BlankTargetEmptyOnly(req) ==
    /\ req.target # NONE
    /\ Strip(req.target) = ""
    /\ ~Truthy(req.image_url)

BlankTarget(req) ==
    /\ req.target # NONE
    /\ Strip(req.target) \in {"", "from conversation"}
    /\ ~Truthy(req.image_url)

EarlyResponse(text) ==
    [request_id |-> original.request_id, status |-> "success", summary |-> text,
     results |-> {}, artifacts |-> <<>>]

\* Mutant of ReturnEarly: the end event is yielded before the summary event.
ReturnEarlyEndFirst(text) ==
    /\ response' = EarlyResponse(text)
    /\ pc' = "done"
    /\ result' = IF entry = "AgentRunner.run" THEN EarlyResponse(text) ELSE result
    /\ events' = IF entry = "AgentRunner.run" THEN events
                 ELSE events \o <<[type |-> "end", body |-> EarlyResponse(text)],
                                  [type |-> "summary", body |-> text]>>
    /\ UNCHANGED failure

\* Both early returns: run returns the response, run_stream yields summary, then end.
ReturnEarly(text) ==
    /\ response' = EarlyResponse(text)
    /\ IF entry = "AgentRunner.run"
       THEN /\ result' = EarlyResponse(text)
            /\ pc' = "done"
            /\ UNCHANGED <<events, failure>>
       ELSE Continue("end", <<[type |-> "summary", body |-> text]>>)

Guard ==
    /\ pc = "guard"
    /\ IF request.out_of_scope
       THEN ReturnEarly("decline_message") /\ UNCHANGED request
       ELSE IF BlankTarget(ResolveRequest(request))
       THEN ReturnEarly("ask_for_target") /\ UNCHANGED request
       ELSE /\ request' = ResolveRequest(request)
            /\ Continue("orch", <<>>)
            /\ UNCHANGED response
    /\ UNCHANGED <<runs, disk, analysis, geo, reply, entry, original, attempts, idx, errors, artifacts, results,
                   store, calls, stages>>

(***************************************************************************)
(* TaskOrchestrator.run_stream                                             *)
(***************************************************************************)
BuildResponse(req, summary, res, arts) ==
    [request_id |-> req.request_id, status |-> "success", summary |-> summary,
     results |-> res, artifacts |-> arts]

\* `if request.image_url is None and request.target is not None`
NeedsAcquisition(req) == req.image_url = NONE /\ req.target # NONE

\* Mutant of ImageArtifacts: the image is always listed at the path of the
\* request's own image file.
ImageArtifactsOwnFile(req) ==
    IF Truthy(req.image_url)
    THEN <<[type |-> "image", path |-> ArtifactPath(req.request_id, "image.jpg")]>>
    ELSE <<>>

\* `if request.image_url: artifacts.append(Artifact(type="image", ...))`
ImageArtifacts(req) ==
    IF Truthy(req.image_url)
    THEN <<[type |-> "image", path |-> req.image_url]>>
    ELSE <<>>

\* Mutant of RunsMeasure: the measurements are computed for every analysis task.
RunsMeasureAlways(task) == TRUE

\* `if request.task in ("measure_basic", "morphology_summary")`
RunsMeasure(task) == task \in {"measure_basic", "morphology_summary"}

\* `if request.task == "morphology_summary"`
RunsSummary(task) == task = "morphology_summary"

\* Mutant of Finish: the response is built but no summary event is yielded.
FinishWithoutSummaryEvent(req, summary, res, arts) ==
    /\ response' = BuildResponse(req, summary, res, arts)
    /\ Continue("tail", <<>>)

\* _build_response, then `yield {"type": "summary", ...}`
Finish(req, summary, res, arts) ==
    /\ response' = BuildResponse(req, summary, res, arts)
    /\ Continue("tail", <<[type |-> "summary", body |-> summary]>>)

\* Mutant of AfterAcquire: the analysis starts without its status event.
AfterAcquireSilent(req) ==
    /\ artifacts' = ImageArtifacts(req)
    /\ IF req.task = "fetch_image"
       THEN /\ results' = {}
            /\ Finish(req, "caption", {}, ImageArtifacts(req))
       ELSE /\ Continue("segment", <<>>)
            /\ UNCHANGED <<results, response>>

\* The code from the image artifact to the first yield after it: the fetch_image
\* branch up to the summary event, or the status event that opens the analysis.
AfterAcquire(req) ==
    /\ artifacts' = ImageArtifacts(req)
    /\ IF req.task = "fetch_image"
       THEN /\ results' = {}
            /\ Finish(req, "caption", {}, ImageArtifacts(req))
       ELSE /\ Continue("segment", <<Status("Segmentando imagen")>>)
            /\ UNCHANGED <<results, response>>

OrchStart ==
    /\ pc = "orch"
    /\ stages' = Append(stages, "Start")
    /\ IF NeedsAcquisition(request)
       THEN /\ Continue("plan", <<Status("Resolviendo galaxia y descargando imagen")>>)
            /\ UNCHANGED <<artifacts, results, response>>
       ELSE AfterAcquire(request)
    /\ UNCHANGED <<runs, disk, analysis, geo, reply, entry, original, request, attempts, idx, errors, store, calls>>

(***************************************************************************)
(* TaskOrchestrator._resolve_fetch_and_download                            *)
(***************************************************************************)
Plan ==
    /\ pc = "plan"
    /\ attempts' = PlanAttempts(request.catalog, request.band)
    /\ idx' = 1
    /\ errors' = <<>>
    /\ stages' = Append(stages, "AcquiringImage")
    /\ Continue("attempt", <<>>)
    /\ UNCHANGED <<runs, disk, analysis, geo, reply, entry, original, request, artifacts, results, response, store, calls>>

ErrorEntry(cause) ==
    [label |-> Label(attempts[idx]), cause |-> cause, attempt |-> idx]

\* Mutants of FailAttempt: the first failure aborts the loop; only the last
\* error is kept; exhaustion returns the request instead of raising.
FailAttemptAbortsLoop(cause) ==
    /\ errors' = Append(errors, ErrorEntry(cause))
    /\ idx' = idx
    /\ Raise([kind |-> "exhausted", errors |-> Append(errors, ErrorEntry(cause)),
              n |-> Len(attempts)])

FailAttemptKeepsLastError(cause) ==
    /\ errors' = <<ErrorEntry(cause)>>
    /\ IF idx < Len(attempts)
       THEN idx' = idx + 1 /\ Continue("attempt", <<>>)
       ELSE /\ idx' = idx
            /\ Raise([kind |-> "exhausted", errors |-> <<ErrorEntry(cause)>>,
                      n |-> Len(attempts)])

FailAttemptReturnsRequest(cause) ==
    /\ errors' = Append(errors, ErrorEntry(cause))
    /\ IF idx < Len(attempts)
       THEN idx' = idx + 1 /\ Continue("attempt", <<>>)
       ELSE idx' = idx /\ Continue("post_acquire", <<Status("Imagen descargada.")>>)

\* `except Exception`: errors.append(...); continue -- and, after the last
\* attempt, the RuntimeError that carries every entry.
FailAttempt(cause) ==
    /\ errors' = Append(errors, ErrorEntry(cause))
    /\ IF idx < Len(attempts)
       THEN idx' = idx + 1 /\ Continue("attempt", <<>>)
       ELSE /\ idx' = idx
            /\ Raise([kind |-> "exhausted", errors |-> Append(errors, ErrorEntry(cause)),
                      n |-> Len(attempts)])

\* A network call: its kind, the attempt that made it, its outcome and, for the
\* name resolver, the name it was given.
Call(kind, outcome, arg) ==
    [kind |-> kind, attempt |-> idx, outcome |-> outcome, arg |-> arg]

RECURSIVE CallsOf(_, _, _)
CallsOf(net, outcome, name) ==
    IF net = <<>> THEN <<>>
    ELSE <<Call(Head(net), IF Len(net) = 1 THEN outcome ELSE "ok",
                IF Head(net) = "sesame" THEN name ELSE NONE)>>
         \o CallsOf(Tail(net), outcome, name)

\* Mutant of UsesCoords: the coordinates of the options are ignored.
UsesCoordsNever(req) == FALSE

\* `if ra_opt is not None and dec_opt is not None`
UsesCoords(req) == req.coords

\* The try block up to `resolved = resolve_and_fetch(...)`.
AttemptResolve ==
    /\ pc = "attempt"
    /\ \E sesame \in SesameOutcomes, skyview \in SkyviewOutcomes :
        LET name == Strip(IF request.target = NONE THEN "" ELSE request.target)
            r == IF UsesCoords(request)
                 THEN ResolveAndFetch(NONE, TRUE, attempts[idx][1], attempts[idx][2],
                                      sesame, skyview)
                 ELSE IF name = ""
                 THEN [ok |-> FALSE, cause |-> "empty_name", survey |-> NONE, net |-> <<>>]
                 ELSE ResolveAndFetch(name, FALSE, attempts[idx][1], attempts[idx][2],
                                      sesame, skyview)
        IN  /\ calls' = calls \o CallsOf(r.net,
                            IF r.ok \/ r.cause \in {"!unknown_band", "!no_band_or_catalog"}
                            THEN "ok" ELSE "fail",
                            Strip(name))
            /\ IF r.ok
               THEN Continue("download", <<>>) /\ UNCHANGED <<idx, errors>>
               ELSE FailAttempt(r.cause)
    /\ UNCHANGED <<runs, disk, analysis, geo, reply, entry, original, request, attempts, artifacts, results, response,
                   store, stages>>

\* requests.get(resolved.image_url, ...); resp.raise_for_status()
DownloadOutcomes == {"ok", "neterr", "status"}

\* Mutant of AttemptDownload: the status of the download is not checked.
AttemptDownloadIgnoresStatus ==
    /\ pc = "download"
    /\ \E out \in DownloadOutcomes :
        /\ calls' = Append(calls, Call("download", out, NONE))
        /\ IF out \in {"ok", "status"}
           THEN Continue("save", <<>>) /\ UNCHANGED <<idx, errors>>
           ELSE FailAttempt("download_neterr")
    /\ UNCHANGED <<runs, disk, analysis, geo, reply, entry, original, request, attempts, artifacts, results, response,
                   store, stages>>

AttemptDownload ==
    /\ pc = "download"
    /\ \E out \in DownloadOutcomes :
        /\ calls' = Append(calls, Call("download", out, NONE))
        /\ IF out = "ok"
           THEN Continue("save", <<>>) /\ UNCHANGED <<idx, errors>>
           ELSE FailAttempt(IF out = "neterr" THEN "download_neterr" ELSE "download_status")
    /\ UNCHANGED <<runs, disk, analysis, geo, reply, entry, original, request, attempts, artifacts, results, response,
                   store, stages>>

\* Mutant of AttemptSave: after a successful save the loop goes on to the next
\* attempt instead of returning.
AttemptSaveNoReturn ==
    /\ pc = "save"
    /\ \E out \in WriteOutcomes :
        /\ store' = StoreAfter(store, "image.jpg", out)
        /\ IF out = "ok"
           THEN /\ request' = [request EXCEPT
                                 !.image_url = ArtifactPath(request.request_id, "image.jpg")]
                /\ UNCHANGED errors
                /\ IF idx < Len(attempts)
                   THEN idx' = idx + 1 /\ Continue("attempt", <<>>)
                   ELSE /\ idx' = idx
                        /\ Continue("post_acquire", <<Status("Imagen descargada.")>>)
           ELSE FailAttempt("save_image") /\ UNCHANGED request
    /\ UNCHANGED <<runs, disk, analysis, geo, reply, entry, original, attempts, artifacts, results, response, calls, stages>>

\* image_path = self.artifact_store.save_image(...); return request.model_copy(...)
\* and, back in run_stream, `yield {"type": "status", "message": "Imagen descargada."}`
AttemptSave ==
    /\ pc = "save"
    /\ \E out \in WriteOutcomes :
        /\ store' = StoreAfter(store, "image.jpg", out)
        /\ IF out = "ok"
           THEN /\ request' = [request EXCEPT
                                 !.image_url = ArtifactPath(request.request_id, "image.jpg")]
                /\ Continue("post_acquire", <<Status("Imagen descargada.")>>)
                /\ UNCHANGED <<idx, errors>>
           ELSE FailAttempt("save_image") /\ UNCHANGED request
    /\ UNCHANGED <<runs, disk, analysis, geo, reply, entry, original, attempts, artifacts, results, response, calls, stages>>

PostAcquire ==
    /\ pc = "post_acquire"
    /\ AfterAcquire(request)
    /\ UNCHANGED <<runs, disk, analysis, geo, reply, entry, original, request, attempts, idx, errors, store, calls, stages>>

(***************************************************************************)
(* galaxy_core: BasicGalaxyAnalyzer and normalize_image.                   *)
(*                                                                         *)
(* An image is a two-dimensional array, here a sequence of rows of equal   *)
(* length (<<>> is the array without pixels).  A pixel is an intensity     *)
(* 0..MaxIntensity or NAN, a value that is not a finite number.  A         *)
(* normalized value (arr - min) / ((max - min) + 1e-9) is kept as its      *)
(* numerator arr - min; all pixels of one image share the positive         *)
(* denominator, which is kept as `range` = max - min.  Rationals are       *)
(* records [num, den]; arithmetic is exact.                                *)
(***************************************************************************)
MaxIntensity == 2
NAN == -1

Intensities == 0..MaxIntensity
Shapes == {<<0, 0>>, <<1, 1>>, <<1, 2>>, <<2, 1>>, <<2, 2>>}
Arrays(shape, values) == [1..shape[1] -> [1..shape[2] -> values]]
Images == UNION {Arrays(sh, Intensities \cup {NAN}) : sh \in Shapes}
Masks == UNION {Arrays(sh, {0, 1}) : sh \in Shapes}

Shape(a) == <<Len(a), IF Len(a) = 0 THEN 0 ELSE Len(a[1])>>
Positions(a) == {<<r, c>> : r \in 1..Shape(a)[1], c \in 1..Shape(a)[2]}
At(a, p) == a[p[1]][p[2]]
HasNan(a) == \E p \in Positions(a) : At(a, p) = NAN
ArrayMin(a) == CHOOSE v \in {At(a, p) : p \in Positions(a)} :
                   \A p \in Positions(a) : v <= At(a, p)
ArrayMax(a) == CHOOSE v \in {At(a, p) : p \in Positions(a)} :
                   \A p \in Positions(a) : v >= At(a, p)
\* The sum of f over the positions ps.
RECURSIVE SumOver(_, _)
SumOver(f, ps) ==
    IF ps = {} THEN 0
    ELSE LET p == CHOOSE q \in ps : TRUE
         IN  f[p] + SumOver(f, ps \ {p})
Values(a) == [p \in Positions(a) |-> At(a, p)]

\* synthetic.normalize_image, for an array with at least one pixel: min and
\* max of an array holding a NaN are NaN, and so is every normalized value.
\* The result is a new array; `image` is not written to.
normalize_image(image) ==
    IF HasNan(image)
    THEN [num |-> [r \in 1..Shape(image)[1] |-> [c \in 1..Shape(image)[2] |-> NAN]],
          range |-> NAN]
    ELSE [num |-> [r \in 1..Shape(image)[1] |->
                     [c \in 1..Shape(image)[2] |-> image[r][c] - ArrayMin(image)]],
          range |-> ArrayMax(image) - ArrayMin(image)]

\* BasicGalaxyAnalyzer.__init__: threshold_quantile = 0.75.
threshold_quantile == [num |-> 3, den |-> 4]

\* The k-th smallest value of the array (k counted from 0).
KthSmallest(a, k) ==
    CHOOSE v \in {At(a, p) : p \in Positions(a)} :
        /\ Cardinality({p \in Positions(a) : At(a, p) < v}) <= k
        /\ k < Cardinality({p \in Positions(a) : At(a, p) <= v})

\* np.quantile(normalized, q), linear interpolation: the virtual index is
\* q * (n - 1); the value lies between the sorted values around it.  The
\* result is num / (den * (range + 1e-9)); it is NaN when a value is NaN.
Quantile(normalized, q) ==
    IF normalized.range = NAN
    THEN [num |-> NAN, den |-> q.den, range |-> NAN]
    ELSE LET n == Cardinality(Positions(normalized.num))
             j == (q.num * (n - 1)) \div q.den
             g == (q.num * (n - 1)) % q.den
             lo == KthSmallest(normalized.num, j)
             hi == KthSmallest(normalized.num, IF j + 1 <= n - 1 THEN j + 1 ELSE n - 1)
         IN  [num |-> q.den * lo + g * (hi - lo), den |-> q.den, range |-> normalized.range]

\* normalized > threshold in place of normalized >= threshold.
AtLeastStrict(normalized, threshold, p) ==
    /\ threshold.num # NAN
    /\ At(normalized.num, p) # NAN
    /\ threshold.den * At(normalized.num, p) > threshold.num

\* normalized >= threshold, element by element; a comparison with NaN is false.
AtLeast(normalized, threshold, p) ==
    /\ threshold.num # NAN
    /\ At(normalized.num, p) # NAN
    /\ threshold.den * At(normalized.num, p) >= threshold.num

\* segment_galaxy with normalized < threshold in place of normalized >= threshold.
segment_galaxy_below(image) ==
    IF Positions(image) = {}
    THEN [error |-> "ValueError", mask |-> <<>>,
          threshold |-> [num |-> 0, den |-> 1, range |-> 0],
          mask_pixels |-> 0, algorithm |-> ""]
    ELSE LET normalized == normalize_image(image)
             threshold == Quantile(normalized, threshold_quantile)
             mask == [r \in 1..Shape(image)[1] |-> [c \in 1..Shape(image)[2] |->
                        IF AtLeast(normalized, threshold, <<r, c>>) THEN 0 ELSE 1]]
         IN  [error |-> "", mask |-> mask, threshold |-> threshold,
              mask_pixels |-> SumOver(Values(mask), Positions(mask)),
              algorithm |-> "quantile_threshold"]

\* segment_galaxy with mask.size in place of mask.sum() as mask_pixels.
segment_galaxy_size(image) ==
    IF Positions(image) = {}
    THEN [error |-> "ValueError", mask |-> <<>>,
          threshold |-> [num |-> 0, den |-> 1, range |-> 0],
          mask_pixels |-> 0, algorithm |-> ""]
    ELSE LET normalized == normalize_image(image)
             threshold == Quantile(normalized, threshold_quantile)
             mask == [r \in 1..Shape(image)[1] |-> [c \in 1..Shape(image)[2] |->
                        IF AtLeast(normalized, threshold, <<r, c>>) THEN 1 ELSE 0]]
         IN  [error |-> "", mask |-> mask, threshold |-> threshold,
              mask_pixels |-> Cardinality(Positions(mask)),
              algorithm |-> "quantile_threshold"]

\* BasicGalaxyAnalyzer.segment_galaxy.  The minimum of an array without
\* pixels raises ValueError.
segment_galaxy(image) ==
    IF Positions(image) = {}
    THEN [error |-> "ValueError", mask |-> <<>>,
          threshold |-> [num |-> 0, den |-> 1, range |-> 0],
          mask_pixels |-> 0, algorithm |-> ""]
    ELSE LET normalized == normalize_image(image)
             threshold == Quantile(normalized, threshold_quantile)
             mask == [r \in 1..Shape(image)[1] |-> [c \in 1..Shape(image)[2] |->
                        IF AtLeast(normalized, threshold, <<r, c>>) THEN 1 ELSE 0]]
         IN  [error |-> "", mask |-> mask, threshold |-> threshold,
              mask_pixels |-> SumOver(Values(mask), Positions(mask)),
              algorithm |-> "quantile_threshold"]

\* argwhere(mask > 0): the positions set in the mask; x is the column and y
\* the row, both counted from 0.
Indices(mask) == {p \in Positions(mask) : At(mask, p) > 0}
Xs(mask) == [p \in Indices(mask) |-> p[2] - 1]
Ys(mask) == [p \in Indices(mask) |-> p[1] - 1]
Squares(f) == [p \in DOMAIN f |-> f[p] * f[p]]

\* n * sum(v^2) - sum(v)^2 = n^2 * variance: std(xs) and std(ys) of one mask
\* compare as these numbers do.
SpreadX(mask) ==
    LET n == Cardinality(Indices(mask))
        sx == SumOver(Xs(mask), Indices(mask))
    IN  n * SumOver(Squares(Xs(mask)), Indices(mask)) - sx * sx
SpreadY(mask) ==
    LET n == Cardinality(Indices(mask))
        sy == SumOver(Ys(mask), Indices(mask))
    IN  n * SumOver(Squares(Ys(mask)), Indices(mask)) - sy * sy

\* 1 - minor / major with minor = sqrt(minor2) / n + 1e-9 and likewise major:
\* the value is 0 exactly when minor2 = major2.
Ellipticity(a, b) == [minor2 |-> IF a <= b THEN a ELSE b, major2 |-> IF a <= b THEN b ELSE a]
Zero == [num |-> 0, den |-> 1]
ZeroEllipticity == Ellipticity(0, 0)
IsZero(x) == x.num = 0 /\ x.den # 0

NoMeasurements ==
    [error |-> "", area_pixels |-> 0, centroid_x |-> Zero, centroid_y |-> Zero,
     ellipticity |-> ZeroEllipticity, mean_intensity |-> Zero]

\* The statements of measure_basic after the two early exits.
MeasureIndices(image, mask) ==
    LET n == Cardinality(Indices(mask))
    IN  [error |-> "",
         area_pixels |-> n,
         centroid_x |-> [num |-> SumOver(Xs(mask), Indices(mask)), den |-> n],
         centroid_y |-> [num |-> SumOver(Ys(mask), Indices(mask)), den |-> n],
         ellipticity |-> Ellipticity(SpreadX(mask), SpreadY(mask)),
         mean_intensity |->
             [num |-> IF \E p \in Indices(mask) : At(image, p) = NAN THEN NAN
                      ELSE SumOver(Values(image), Indices(mask)),
              den |-> n]]

\* measure_basic without its shape check: image[mask > 0] raises IndexError
\* when the shapes differ.
measure_basic_unchecked(image, mask) ==
    IF Indices(mask) = {}
    THEN NoMeasurements
    ELSE IF Shape(image) # Shape(mask)
    THEN [NoMeasurements EXCEPT !.error = "IndexError"]
    ELSE MeasureIndices(image, mask)

\* measure_basic without its empty-mask exit: the means of no values.
measure_basic_no_empty_exit(image, mask) ==
    IF Shape(image) # Shape(mask)
    THEN [NoMeasurements EXCEPT !.error = "image and mask must have the same shape"]
    ELSE MeasureIndices(image, mask)

\* BasicGalaxyAnalyzer.measure_basic.
measure_basic(image, mask) ==
    IF Shape(image) # Shape(mask)
    THEN [NoMeasurements EXCEPT !.error = "image and mask must have the same shape"]
    ELSE IF Indices(mask) = {}
    THEN NoMeasurements
    ELSE MeasureIndices(image, mask)

\* One call of measure_basic: what it was given and what it returned.
Measured(source, image, mask) ==
    [source |-> source, image |-> image, mask |-> mask,
     measurements |-> measure_basic(image, mask)]

(***************************************************************************)
(* The analysis branch of run_stream.                                      *)
(***************************************************************************)
\* galaxy_agent.tools.load_image: None gives the synthetic image; an http(s)
\* URL is downloaded; anything else is read as a local path.
IsHttp(url) == url = SUPPLIED

LoadOutcomes(url) ==
    IF url = NONE THEN {"ok"}
    ELSE IF url = "" THEN {"fail"}
    ELSE {"ok", "fail"}

Artifact(type, file) == [type |-> type, path |-> ArtifactPath(request.request_id, file)]

\* What load_image can return: the synthetic image or the 8-bit grayscale pixels
\* of a decoded file, in both cases an array with pixels, all of them finite.
LoadedImages == {<< <<1, 1>>, <<1, 1>> >>, << <<0, 2>>, <<1, 1>> >>}

\* tool_segment(self.analyzer, image) and, on its mask,
\* tool_measure_basic(self.analyzer, image, segmentation.mask), for each image
\* load_image can return.
ToolSegment == [image \in LoadedImages |-> segment_galaxy(image)]
ToolMeasureBasic ==
    [image \in LoadedImages |-> Measured("segmentation", image, ToolSegment[image].mask)]

\* load_image, tool_segment, save_mask, then up to the next yield.
Segment ==
    /\ pc = "segment"
    /\ stages' = Append(stages, "Segmenting")
    /\ \E load \in LoadOutcomes(request.image_url), out \in WriteOutcomes,
          image \in LoadedImages :
        /\ analysis' = IF load = "fail" THEN analysis
                       ELSE [NoAnalysis EXCEPT !.image = image,
                                               !.segmentations = <<ToolSegment[image]>>]
        /\ calls' = IF IsHttp(request.image_url)
                    THEN Append(calls, [kind |-> "load", attempt |-> 0, outcome |-> load,
                                        arg |-> NONE])
                    ELSE calls
        /\ IF load = "fail"
           THEN /\ Raise(Exc("load_image"))
                /\ UNCHANGED <<store, artifacts, results, response>>
           ELSE /\ store' = StoreAfter(store, "mask.png", out)
                /\ IF out # "ok"
                   THEN /\ Raise(Exc("save_mask"))
                        /\ UNCHANGED <<artifacts, results, response>>
                   ELSE /\ artifacts' = Append(artifacts, Artifact("mask", "mask.png"))
                        /\ results' = {"segmentation_metadata"}
                        /\ IF RunsMeasure(request.task)
                           THEN /\ Continue("measure", <<Status("Calculando medidas")>>)
                                /\ UNCHANGED response
                           ELSE IF RunsSummary(request.task)
                           THEN /\ Continue("summarize", <<Status("Generando resumen")>>)
                                /\ UNCHANGED response
                           ELSE Finish(request, "Segmentation completed.",
                                       {"segmentation_metadata"},
                                       Append(artifacts, Artifact("mask", "mask.png")))
    /\ UNCHANGED <<runs, disk, geo, reply, entry, original, request, attempts, idx, errors>>

\* tool_measure_basic, save_measurements, then up to the next yield.
Measure ==
    /\ pc = "measure"
    /\ stages' = Append(stages, "Measuring")
    /\ analysis' = [analysis EXCEPT !.measured = <<ToolMeasureBasic[analysis.image]>>]
    /\ \E out \in WriteOutcomes :
        /\ store' = StoreAfter(store, "measurements.json", out)
        /\ IF out # "ok"
           THEN /\ Raise(Exc("save_measurements"))
                /\ UNCHANGED <<artifacts, results, response>>
           ELSE /\ artifacts' = Append(artifacts, Artifact("report", "measurements.json"))
                /\ results' = results \cup {"measurements"}
                /\ IF RunsSummary(request.task)
                   THEN /\ Continue("summarize", <<Status("Generando resumen")>>)
                        /\ UNCHANGED response
                   ELSE Finish(request, "Basic measurements computed.",
                               results \cup {"measurements"},
                               Append(artifacts, Artifact("report", "measurements.json")))
    /\ UNCHANGED <<runs, disk, geo, reply, entry, original, request, attempts, idx, errors, calls>>

\* tool_morphology_summary, tool_generate_report, save_report, the summary text.
SummaryTexts == {"morphology_text", "accompanying_summary"}

Summarize ==
    /\ pc = "summarize"
    /\ stages' = Append(stages, "Summarizing")
    /\ IF "measurements" \notin results
       THEN /\ Raise(Exc("KeyError"))
            /\ UNCHANGED <<store, artifacts, response>>
       ELSE \E out \in WriteOutcomes, text \in SummaryTexts :
            /\ store' = StoreAfter(store, "report.txt", out)
            /\ IF out # "ok"
               THEN /\ Raise(Exc("save_report"))
                    /\ UNCHANGED <<artifacts, response>>
               ELSE /\ artifacts' = Append(artifacts, Artifact("report", "report.txt"))
                    /\ Finish(request, text, results,
                              Append(artifacts, Artifact("report", "report.txt")))
    /\ UNCHANGED <<runs, disk, analysis, geo, reply, entry, original, request, attempts, idx, errors, results, calls>>

(***************************************************************************)
(* The end of run_stream: [artifacts event,] end event.  TaskOrchestrator  *)
(* .run returns the response of the end event to AgentRunner.run.          *)
(***************************************************************************)
EndEvent == [type |-> "end", body |-> response]

\* Mutant of EmitEnd: TaskOrchestrator.run rebuilds the response without the
\* artifacts of the end event.
EmitEndDropsArtifacts ==
    /\ events' = Append(events, EndEvent)
    /\ pc' = "done"
    /\ result' = IF entry = "AgentRunner.run" THEN [response EXCEPT !.artifacts = <<>>]
                 ELSE result
    /\ UNCHANGED failure

EmitEnd ==
    /\ events' = Append(events, EndEvent)
    /\ pc' = "done"
    /\ result' = IF entry = "AgentRunner.run" THEN response ELSE result
    /\ UNCHANGED failure

\* Mutant of YieldArtifacts: the artifacts event is yielded for an empty list too.
YieldArtifactsAlways ==
    /\ pc = "tail"
    /\ Continue("end", <<[type |-> "artifacts", body |-> request.request_id]>>)
    /\ UNCHANGED <<runs, disk, analysis, geo, reply, entry, original, request, attempts, idx, errors, artifacts, results,
                   response, store, calls, stages>>

YieldArtifacts ==
    /\ pc = "tail"
    /\ IF artifacts # <<>>
       THEN Continue("end", <<[type |-> "artifacts", body |-> request.request_id]>>)
       ELSE EmitEnd
    /\ UNCHANGED <<runs, disk, analysis, geo, reply, entry, original, request, attempts, idx, errors, artifacts, results,
                   response, store, calls, stages>>

YieldEnd ==
    /\ pc = "end"
    /\ EmitEnd
    /\ UNCHANGED <<runs, disk, analysis, geo, reply, entry, original, request, attempts, idx, errors, artifacts, results,
                   response, store, calls, stages>>

Next ==
    \/ EnrichRequest
    \/ Guard
    \/ OrchStart
    \/ Plan
    \/ AttemptResolve
    \/ AttemptDownload
    \/ AttemptSave
    \/ PostAcquire
    \/ Segment
    \/ Measure
    \/ Summarize
    \/ YieldArtifacts
    \/ YieldEnd

Spec == Init /\ [][Next]_vars

\* The generator is driven to its end: every enabled step is eventually taken.
FairSpec == Spec /\ WF_vars(Next)

(***************************************************************************)
(* The consumer of a stream stops consuming.  run_stream is a generator:   *)
(* its code runs only while the consumer asks for the next event, and it   *)
(* is suspended at a yield when the consumer holds an event.  Closing the  *)
(* suspended generator raises GeneratorExit at that yield; no `finally`    *)
(* encloses a yield and `except Exception` of AgentRunner.run_stream does  *)
(* not catch it, so it leaves every frame without running anything.        *)
(***************************************************************************)
StreamEntries == {"AgentRunner.run_stream", "TaskOrchestrator.run_stream"}

\* The suspension points that follow a yield.
YieldPcs == {"plan", "post_acquire", "segment", "measure", "summarize", "tail", "end"}

\* A consumer whose close() does not stop the generator: it runs on.
CancelResumes ==
    /\ entry \in StreamEntries
    /\ pc \in YieldPcs
    /\ events # <<>>
    /\ failure.kind = "none"
    /\ failure' = Exc("GeneratorExit")
    /\ UNCHANGED <<runs, disk, analysis, geo, reply, entry, original, request, pc, attempts, idx,
                   errors, events, artifacts, results, response, result, store, calls,
                   stages>>

Cancel ==
    /\ entry \in StreamEntries
    /\ pc \in YieldPcs
    /\ events # <<>>
    /\ failure.kind = "none"
    /\ failure' = Exc("GeneratorExit")
    /\ pc' = "closed"
    /\ UNCHANGED <<runs, disk, analysis, geo, reply, entry, original, request, attempts, idx,
                   errors, events, artifacts, results, response, result, store, calls,
                   stages>>

CancelNext ==
    \/ Next
    \/ Cancel

CancelSpec == Init /\ [][CancelNext]_vars

(***************************************************************************)
(* galaxy_agent.artifacts.ArtifactStore shared by several runs.  Each run  *)
(* makes the saves of its pipeline, in pipeline order, under its own       *)
(* request id; the runs interleave freely.  A request id is any string:    *)
(* here the sequence of its characters.  A path is the sequence of its     *)
(* components, as pathlib keeps it.                                        *)
(***************************************************************************)
RunIds == {1, 2}

RequestIdStrings ==
    {<<"r", "1">>, <<"r", "2">>, <<"r", "1", "/">>, <<".", "/", "r", "1">>}

\* pathlib's parsing of a path string: split at "/", the empty and the "."
\* components dropped.  cur is the component being read.
Component(cur) == IF cur = <<>> \/ cur = <<".">> THEN <<>> ELSE <<cur>>

RECURSIVE SplitPath(_, _)
SplitPath(chars, cur) ==
    IF chars = <<>> THEN Component(cur)
    ELSE IF Head(chars) = "/"
    THEN Component(cur) \o SplitPath(Tail(chars), <<>>)
    ELSE SplitPath(Tail(chars), Append(cur, Head(chars)))

\* self.base_dir = Path("artifacts")
BaseDir == << <<"artifacts">> >>

\* _request_dir: self.base_dir / request_id (an absolute request id replaces
\* the base directory)
RequestDir(request_id) ==
    IF request_id # <<>> /\ Head(request_id) = "/"
    THEN << <<"/">> >> \o SplitPath(request_id, <<>>)
    ELSE BaseDir \o SplitPath(request_id, <<>>)

\* self._request_dir(request_id) / "<file>"
FilePath(request_id, file) == Append(RequestDir(request_id), <<file>>)

\* The saves of one run of TaskOrchestrator.run_stream, in order.
SavesOf(task, acquired) ==
    (IF acquired THEN <<"image.jpg">> ELSE <<>>)
    \o (IF task = "fetch_image" THEN <<>> ELSE <<"mask.png">>)
    \o (IF RunsMeasure(task) THEN <<"measurements.json">> ELSE <<>>)
    \o (IF RunsSummary(task) THEN <<"report.txt">> ELSE <<>>)

\* Nothing relates the request ids of two requests: they may differ or be equal.
StoreRuns ==
    [RunIds -> [id : RequestIdStrings,
                todo : {SavesOf(t, a) : t \in Tasks, a \in BOOLEAN},
                written : {{}}]]

\* AgentRunner.__init__ made the store; no pipeline state is involved.
StoreInit ==
    /\ runs \in StoreRuns
    /\ disk = {}
    /\ analysis = NoAnalysis
    /\ geo = NoGeo
    /\ reply = NoReply
    /\ entry = "ArtifactStore"
    /\ original = NONE
    /\ request = NONE
    /\ pc = "store"
    /\ attempts = <<>>
    /\ idx = 0
    /\ errors = <<>>
    /\ events = <<>>
    /\ artifacts = <<>>
    /\ results = {}
    /\ response = NoResponse
    /\ result = NoResponse
    /\ failure = NoFailure
    /\ store = [dir |-> FALSE, files |-> {}]
    /\ calls = <<>>
    /\ stages = <<>>

\* One save of run k: mkdir(parents=True, exist_ok=True), then the write.  A
\* save that raises ends the run.
SaveFile(k, file) ==
    /\ runs[k].todo # <<>>
    /\ Head(runs[k].todo) = file
    /\ \E out \in WriteOutcomes :
        CASE out = "ok" ->
               /\ runs' = [runs EXCEPT ![k].todo = Tail(@),
                                       ![k].written = @ \cup {FilePath(runs[k].id, file)}]
               /\ disk' = disk \cup {RequestDir(runs[k].id), FilePath(runs[k].id, file)}
          [] out = "write_fail" ->
               /\ runs' = [runs EXCEPT ![k].todo = <<>>]
               /\ disk' = disk \cup {RequestDir(runs[k].id)}
          [] OTHER ->
               /\ runs' = [runs EXCEPT ![k].todo = <<>>]
               /\ UNCHANGED disk
    /\ UNCHANGED <<pipelineVars, analysis, geo, reply>>

SaveImage(k) ==
    /\ pc = "store"
    /\ SaveFile(k, "image.jpg")

SaveMask(k) ==
    /\ pc = "store"
    /\ SaveFile(k, "mask.png")

SaveMeasurements(k) ==
    /\ pc = "store"
    /\ SaveFile(k, "measurements.json")

SaveReport(k) ==
    /\ pc = "store"
    /\ SaveFile(k, "report.txt")

StoreNext ==
    \/ \E k \in RunIds : SaveImage(k)
    \/ \E k \in RunIds : SaveMask(k)
    \/ \E k \in RunIds : SaveMeasurements(k)
    \/ \E k \in RunIds : SaveReport(k)

StoreSpec == StoreInit /\ [][StoreNext]_vars

(***************************************************************************)
(* BasicGalaxyAnalyzer called directly: an image and a mask are given;     *)
(* segment_galaxy is run on the image (more than once), measure_basic is   *)
(* run on the image with the given mask or with the mask of the first      *)
(* segmentation, as tool_measure_basic does in run_stream.                 *)
(***************************************************************************)
MaxSegmentRuns == 2

AnalysisInit ==
    /\ analysis \in [image : Images, mask : Masks, segmentations : {<<>>}, measured : {<<>>}]
    /\ geo = NoGeo
    /\ reply = NoReply
    /\ runs = <<>>
    /\ disk = {}
    /\ entry = "BasicGalaxyAnalyzer"
    /\ original = NONE
    /\ request = NONE
    /\ pc = "analyzer"
    /\ attempts = <<>>
    /\ idx = 0
    /\ errors = <<>>
    /\ events = <<>>
    /\ artifacts = <<>>
    /\ results = {}
    /\ response = NoResponse
    /\ result = NoResponse
    /\ failure = NoFailure
    /\ store = [dir |-> FALSE, files |-> {}]
    /\ calls = <<>>
    /\ stages = <<>>

\* segment_galaxy that normalizes the caller's array in place.
SegmentGalaxyInPlace ==
    /\ pc = "analyzer"
    /\ Len(analysis.segmentations) < MaxSegmentRuns
    /\ analysis' = [analysis EXCEPT
                       !.segmentations = Append(@, segment_galaxy(analysis.image)),
                       !.image = IF Positions(@) = {} THEN @ ELSE normalize_image(@).num]
    /\ UNCHANGED <<pipelineVars, runs, disk, geo, reply>>

\* One call of segment_galaxy on the image: image.astype(np.float64) copies,
\* the caller's array stays as it is.
SegmentGalaxy ==
    /\ pc = "analyzer"
    /\ Len(analysis.segmentations) < MaxSegmentRuns
    /\ analysis' = [analysis EXCEPT
                       !.segmentations = Append(@, segment_galaxy(analysis.image))]
    /\ UNCHANGED <<pipelineVars, runs, disk, geo, reply>>

\* One call of measure_basic on the image and the given mask.
MeasureBasic ==
    /\ pc = "analyzer"
    /\ analysis.measured = <<>>
    /\ analysis' = [analysis EXCEPT
                       !.measured = <<Measured("mask", analysis.image, analysis.mask)>>]
    /\ UNCHANGED <<pipelineVars, runs, disk, geo, reply>>

\* tool_measure_basic(image, segmentation.mask).
MeasureSegmentation ==
    /\ pc = "analyzer"
    /\ analysis.measured = <<>>
    /\ analysis.segmentations # <<>>
    /\ analysis.segmentations[1].error = ""
    /\ analysis' = [analysis EXCEPT
                       !.measured = <<Measured("segmentation", analysis.image,
                                               analysis.segmentations[1].mask)>>]
    /\ UNCHANGED <<pipelineVars, runs, disk, geo, reply>>

AnalysisNext ==
    \/ SegmentGalaxy
    \/ MeasureBasic
    \/ MeasureSegmentation

AnalysisSpec == AnalysisInit /\ [][AnalysisNext]_vars

(***************************************************************************)
(* Coordinates: resolve_and_fetch and the SDSS URL builder.                *)
(*                                                                         *)
(* A coordinate is the decimal number whole + frac / FracUnits with        *)
(* 0 <= frac < FracUnits (one digit more than round(x, 6) keeps), so       *)
(* -0.5 is whole -1 and frac 5000000.  A rounded coordinate is             *)
(* whole + micro / 10^6.  size_arcmin is counted in hundredths of an       *)
(* arcminute and the scale in units of 0.0001 arcsec per pixel, the digits *)
(* round(scale, 4) keeps.  Arithmetic is exact.                            *)
(***************************************************************************)
FracUnits == 10000000
Num(whole, frac) == [whole |-> whole, frac |-> frac]
LessThan(a, b) == a.whole < b.whole \/ (a.whole = b.whole /\ a.frac < b.frac)

\* float(ra_deg) % 360.0: the result has the sign of 360.0.
Mod360(x) == [whole |-> x.whole % 360, frac |-> x.frac]

\* max(-90.0, min(90.0, float(dec_deg)))
ClampDec(x) ==
    IF LessThan(Num(90, 0), x) THEN Num(90, 0)
    ELSE IF LessThan(x, Num(-90, 0)) THEN Num(-90, 0)
    ELSE x

\* round(x, 6): to the nearest millionth, a tie to the even one.
Round6(x) ==
    LET q == x.frac \div 10
        r == x.frac % 10
        micro == IF r > 5 \/ (r = 5 /\ q % 2 = 1) THEN q + 1 ELSE q
    IN  IF micro = FracUnits \div 10
        THEN [whole |-> x.whole + 1, micro |-> 0]
        ELSE [whole |-> x.whole, micro |-> micro]

DEFAULT_PIXELS == 300
SIZE_PIX_MIN == 64
SIZE_PIX_MAX == 2048
\* SCALE_MIN, SCALE_MAX = 0.015, 60.0, in units of 0.0001
SCALE_MIN == 150
SCALE_MAX == 600000

\* min(SIZE_PIX_MAX, int(pixels)) without the lower limit.
ClampPixelsUpperOnly(pixels) ==
    IF pixels > SIZE_PIX_MAX THEN SIZE_PIX_MAX ELSE pixels

\* max(SIZE_PIX_MIN, min(SIZE_PIX_MAX, int(pixels)))
ClampPixels(pixels) ==
    IF pixels > SIZE_PIX_MAX THEN SIZE_PIX_MAX
    ELSE IF pixels < SIZE_PIX_MIN THEN SIZE_PIX_MIN
    ELSE pixels

\* round(max(SCALE_MIN, min(SCALE_MAX, size_arcmin * 60.0 / pixels)), 4)
ScaleArcsec(size_arcmin, pixels) ==
    LET num == size_arcmin * 6000
    IN  IF num < SCALE_MIN * pixels THEN SCALE_MIN
        ELSE IF num > SCALE_MAX * pixels THEN SCALE_MAX
        ELSE LET q == num \div pixels
                 r == num % pixels
             IN  IF 2 * r > pixels \/ (2 * r = pixels /\ q % 2 = 1) THEN q + 1 ELSE q

\* sdss_client.get_image_url: the query parameters of the URL.
sdss_get_image_url(ra_deg, dec_deg, size_arcmin, pixels) ==
    [ra |-> Round6(Mod360(ra_deg)),
     dec |-> Round6(ClampDec(dec_deg)),
     scale |-> ScaleArcsec(size_arcmin, ClampPixels(pixels)),
     width |-> ClampPixels(pixels),
     height |-> ClampPixels(pixels)]

\* skyview_client.get_image_url: Position is f"{ra_deg},{dec_deg}", the
\* coordinates as they were given.
skyview_position(ra_deg, dec_deg) == [ra |-> ra_deg, dec |-> dec_deg]

\* resolve_and_fetch from the coordinates on (given by the caller or returned
\* by sesame_resolve) for a survey; the calls return.
ResolvedTarget(query) ==
    [ra_deg |-> query.ra,
     dec_deg |-> query.dec,
     survey_used |-> query.survey,
     image_url |-> IF Upper(query.survey) = "SDSS"
                   THEN <<"sdss", sdss_get_image_url(query.ra, query.dec, query.size_arcmin,
                                                     DEFAULT_PIXELS)>>
                   ELSE <<"skyview", skyview_position(query.ra, query.dec)>>,
     size_arcmin |-> query.size_arcmin]

RightAscensions == {Num(-10, 0), Num(0, 0), Num(10, 0), Num(359, 9999996), Num(360, 0),
                    Num(370, 0)}
Declinations == {Num(-95, 0), Num(-91, 9999996), Num(0, 0), Num(89, 9999996), Num(90, 0),
                 Num(95, 0)}
SizesArcmin == {-100, 0, 1, 1000, 100000}
PixelCounts == {-5, 1, 64, 300, 5000}
\* The caller's ra_deg and dec_deg are any numbers; the name resolver returns
\* a J2000 position, 0 <= ra < 360 and -90 <= dec <= 90.
Queries ==
    {q \in [ra : RightAscensions, dec : Declinations, size_arcmin : SizesArcmin,
            pixels : PixelCounts, source : {"caller", "sesame"}, survey : {"SDSS", "DSS"}] :
        q.source = "sesame" =>
            /\ 0 <= q.ra.whole /\ q.ra.whole < 360
            /\ ~LessThan(q.dec, Num(-90, 0)) /\ ~LessThan(Num(90, 0), q.dec)}

GeoInit ==
    /\ geo \in [query : Queries, resolved : {<<>>}, url : {<<>>}]
    /\ reply = NoReply
    /\ analysis = NoAnalysis
    /\ runs = <<>>
    /\ disk = {}
    /\ entry = "resolve_and_fetch"
    /\ original = NONE
    /\ request = NONE
    /\ pc = "geo"
    /\ attempts = <<>>
    /\ idx = 0
    /\ errors = <<>>
    /\ events = <<>>
    /\ artifacts = <<>>
    /\ results = {}
    /\ response = NoResponse
    /\ result = NoResponse
    /\ failure = NoFailure
    /\ store = [dir |-> FALSE, files |-> {}]
    /\ calls = <<>>
    /\ stages = <<>>

\* One call of resolve_and_fetch that returns.
ResolveTarget ==
    /\ pc = "geo"
    /\ geo.resolved = <<>>
    /\ geo' = [geo EXCEPT !.resolved = <<ResolvedTarget(geo.query)>>]
    /\ UNCHANGED <<pipelineVars, runs, disk, analysis, reply>>

\* One call of sdss_client.get_image_url.
SdssGetImageUrl ==
    /\ pc = "geo"
    /\ geo.url = <<>>
    /\ geo' = [geo EXCEPT !.url = <<sdss_get_image_url(geo.query.ra, geo.query.dec,
                                                       geo.query.size_arcmin,
                                                       geo.query.pixels)>>]
    /\ UNCHANGED <<pipelineVars, runs, disk, analysis, reply>>

GeoNext ==
    \/ ResolveTarget
    \/ SdssGetImageUrl

GeoSpec == GeoInit /\ [][GeoNext]_vars

(***************************************************************************)
(* sesame_client.resolve on a response body.  The body is a sequence of    *)
(* lines; SESAME_JPOS_RE (`^%J\s+([+-]?[\d.]+)\s+([+-]?[\d.]+)`, MULTILINE) *)
(* and the test `"Nothing found" in text` are tabulated for the lines.     *)
(***************************************************************************)
MaxLines == 3

SesameLines ==
    {"%J 148.888 +69.065", "%J 10.0 -5.0", "#! Nothing found", "# M81", " %J 1.0 2.0",
     "%J abc def", "%J 1.2.3 4"}

\* The two groups of SESAME_JPOS_RE when it matches at the start of the line.
JposGroups(line) ==
    CASE line = "%J 148.888 +69.065" -> <<"148.888", "+69.065">>
      [] line = "%J 10.0 -5.0" -> <<"10.0", "-5.0">>
      [] line = "%J 1.2.3 4" -> <<"1.2.3", "4">>
      [] OTHER -> <<>>

\* float(text) raises ValueError for digits and dots that are no number.
IsFloat(text) == text # "1.2.3"

NothingFound(line) == line = "#! Nothing found"

Bodies == UNION {[1..n -> SesameLines] : n \in 0..MaxLines}

\* SESAME_JPOS_RE.search(text): the index of the first line it matches, or 0.
FirstJpos(text) ==
    IF \E i \in DOMAIN text : JposGroups(text[i]) # <<>>
    THEN CHOOSE i \in DOMAIN text :
             /\ JposGroups(text[i]) # <<>>
             /\ \A j \in 1..(i - 1) : JposGroups(text[j]) = <<>>
    ELSE 0

Position(ra, dec) == [ok |-> TRUE, ra_deg |-> ra, dec_deg |-> dec, error |-> ""]
NoPosition(error) == [ok |-> FALSE, ra_deg |-> "", dec_deg |-> "", error |-> error]

\* sesame_client.resolve from `text = response.text` on.
resolve(text) ==
    LET match == FirstJpos(text)
    IN  IF match = 0
        THEN IF \E i \in DOMAIN text : NothingFound(text[i])
             THEN NoPosition("SESAME returned no position")
             ELSE NoPosition("SESAME returned no position (no %J line)")
        ELSE LET groups == JposGroups(text[match])
             IN  IF IsFloat(groups[1]) /\ IsFloat(groups[2])
                 THEN Position(groups[1], groups[2])
                 ELSE NoPosition("could not convert string to float")

SesameInit ==
    /\ reply \in [service : {"sesame"}, body : Bodies, chunkings : {<<>>}, results : {<<>>}]
    /\ geo = NoGeo
    /\ analysis = NoAnalysis
    /\ runs = <<>>
    /\ disk = {}
    /\ entry = "sesame_client.resolve"
    /\ original = NONE
    /\ request = NONE
    /\ pc = "sesame"
    /\ attempts = <<>>
    /\ idx = 0
    /\ errors = <<>>
    /\ events = <<>>
    /\ artifacts = <<>>
    /\ results = {}
    /\ response = NoResponse
    /\ result = NoResponse
    /\ failure = NoFailure
    /\ store = [dir |-> FALSE, files |-> {}]
    /\ calls = <<>>
    /\ stages = <<>>

\* One call of resolve whose request succeeded.
SesameResolve ==
    /\ pc = "sesame"
    /\ reply.results = <<>>
    /\ reply' = [reply EXCEPT !.results = <<resolve(reply.body)>>]
    /\ UNCHANGED <<pipelineVars, runs, disk, analysis, geo>>

SesameNext == SesameResolve

SesameSpec == SesameInit /\ [][SesameNext]_vars

(***************************************************************************)
(* skyview_client.get_image_url from `buffer = ""` on.  The response body  *)
(* is a sequence of items, each two units long; the transport delivers it  *)
(* in non-empty chunks, a chunking being the set of buffer lengths after   *)
(* each chunk.  A pattern matches an item only when the buffer holds the   *)
(* whole item (each pattern ends with the closing quote).                  *)
(***************************************************************************)
MaxItems == 2

ItemLen == 2

AbsHrefs ==
    {"href=\"https://skyview.gsfc.nasa.gov/tempspace/fits/a.fits\"",
     "href=\"https://skyview.gsfc.nasa.gov/tempspace/fits/d.jpg\""}
RelHrefs == {"href=\"/tempspace/fits/b.fits\""}
ImgSrcs == {"src=\"https://skyview.gsfc.nasa.gov/tempspace/c.jpg\""}
\* group(1) of the pattern that matches the item.
Group(item) ==
    CASE item = "href=\"https://skyview.gsfc.nasa.gov/tempspace/fits/a.fits\""
             -> "https://skyview.gsfc.nasa.gov/tempspace/fits/a.fits"
      [] item = "href=\"https://skyview.gsfc.nasa.gov/tempspace/fits/d.jpg\""
             -> "https://skyview.gsfc.nasa.gov/tempspace/fits/d.jpg"
      [] item = "href=\"/tempspace/fits/b.fits\"" -> "/tempspace/fits/b.fits"
      [] item = "src=\"https://skyview.gsfc.nasa.gov/tempspace/c.jpg\""
             -> "https://skyview.gsfc.nasa.gov/tempspace/c.jpg"
      [] OTHER -> ""

\* base + group(1) for the one root-relative link of the alphabet, base being
\* "https://skyview.gsfc.nasa.gov".
Absolute(path) ==
    IF path = "/tempspace/fits/b.fits"
    THEN "https://skyview.gsfc.nasa.gov/tempspace/fits/b.fits"
    ELSE path

\* A body holds references and other text ("<p>").
SkyviewBodies ==
    UNION {[1..n -> AbsHrefs \cup RelHrefs \cup ImgSrcs \cup {"<p>"}] : n \in 0..MaxItems}

\* The ways iter_content can cut a body into non-empty chunks.
Chunkings(body) ==
    IF Len(body) = 0
    THEN {{}}
    ELSE {ends \cup {ItemLen * Len(body)} : ends \in SUBSET (1..(ItemLen * Len(body) - 1))}

\* The items the buffer holds whole when it is `length` units long.
InBuffer(body, length) == {i \in DOMAIN body : ItemLen * i <= length}

\* pattern.search(buffer): the leftmost item of the buffer among `items`, or 0.
Search(body, length, items) ==
    LET found == {i \in InBuffer(body, length) : body[i] \in items}
    IN  IF found = {} THEN 0 ELSE CHOOSE i \in found : \A j \in found : i <= j

ImageUrl(url) == [ok |-> TRUE, url |-> url, error |-> ""]
NoImageUrl == [ok |-> FALSE, url |-> "", error |-> "No image URL found in SkyView response"]

\* The three searches made after one chunk was added to the buffer.
ScanBuffer(body, length) ==
    LET match == Search(body, length, AbsHrefs)
        rel_match == Search(body, length, RelHrefs)
        img_match == Search(body, length, ImgSrcs)
    IN  IF match # 0 THEN ImageUrl(Group(body[match]))
        ELSE IF rel_match # 0 THEN ImageUrl(Absolute(Group(body[rel_match])))
        ELSE IF img_match # 0 THEN ImageUrl(Group(body[img_match]))
        ELSE NoImageUrl

\* The loop over the chunks: the first buffer in which a pattern matches decides.
get_image_url(body, chunking) ==
    LET hits == {length \in chunking : ScanBuffer(body, length).ok}
    IN  IF hits = {}
        THEN NoImageUrl
        ELSE ScanBuffer(body, CHOOSE length \in hits : \A other \in hits : length <= other)

SkyviewInit ==
    /\ reply \in [service : {"skyview"}, body : SkyviewBodies, chunkings : {<<>>},
                   results : {<<>>}]
    /\ geo = NoGeo
    /\ analysis = NoAnalysis
    /\ runs = <<>>
    /\ disk = {}
    /\ entry = "skyview_client.get_image_url"
    /\ original = NONE
    /\ request = NONE
    /\ pc = "skyview"
    /\ attempts = <<>>
    /\ idx = 0
    /\ errors = <<>>
    /\ events = <<>>
    /\ artifacts = <<>>
    /\ results = {}
    /\ response = NoResponse
    /\ result = NoResponse
    /\ failure = NoFailure
    /\ store = [dir |-> FALSE, files |-> {}]
    /\ calls = <<>>
    /\ stages = <<>>

\* One call of get_image_url; the service answers a repeated query with the
\* same body, which the transport may cut differently.
SkyviewGetImageUrl ==
    /\ pc = "skyview"
    /\ Len(reply.results) <= 1
    /\ \E chunking \in Chunkings(reply.body) :
           reply' = [reply EXCEPT
                        !.chunkings = Append(@, chunking),
                        !.results = Append(@, get_image_url(reply.body, chunking))]
    /\ UNCHANGED <<pipelineVars, runs, disk, analysis, geo>>

SkyviewNext == SkyviewGetImageUrl

SkyviewSpec == SkyviewInit /\ [][SkyviewNext]_vars

(***************************************************************************)
(* Vocabulary of the properties.                                           *)
(***************************************************************************)
LoopPcs == {"attempt", "download", "save"}

AcquisitionKinds == {"sesame", "skyview", "download"}

AnalysisStageNames == {"Segmenting", "Measuring", "Summarizing"}

AnalysisFiles == {"mask.png", "measurements.json", "report.txt"}

AnalysisStatus == {"Segmentando imagen", "Calculando medidas", "Generando resumen"}

IsAnalysisStage(s) == s \in AnalysisStageNames

AnalysisStagesEntered == SelectSeq(stages, IsAnalysisStage)

IsTerminal(e) == e.type \in {"end", "error"}

TerminalEvents == {i \in 1..Len(events) : IsTerminal(events[i])}

StatusBodies == {events[i].body : i \in {j \in 1..Len(events) : events[j].type = "status"}}

OrchestratorEnded ==
    /\ stages # <<>>
    /\ events # <<>>
    /\ events[Len(events)].type = "end"

ImageSaved == "image.jpg" \in store.files

AllAttemptsFailed == attempts # <<>> /\ Len(errors) = Len(attempts)

IsPrefix(a, b) == Len(a) <= Len(b) /\ a = SubSeq(b, 1, Len(a))

(***************************************************************************)
(* C1 (as stated): once an attempt's URL resolution and download have both *)
(* succeeded, the loop ends: no later attempt is resolved or downloaded.   *)
(* (That the bytes are then saved is part of the amended statement.)       *)
(***************************************************************************)
C1_DownloadedAttemptEndsLoop ==
    \A i \in 1..Len(calls) :
        (calls[i].kind = "download" /\ calls[i].outcome = "ok") =>
            \A j \in (i + 1)..Len(calls) : calls[j].kind \notin AcquisitionKinds

(***************************************************************************)
(* C1 (amended): attempts are executed in list order, and the first        *)
(* attempt whose URL resolution, download and save of the image all        *)
(* succeed ends the loop: the request's image is the file saved under the  *)
(* request id, every earlier attempt has its error entry, and no later     *)
(* attempt is resolved or downloaded; when the SDSS attempt of a           *)
(* visible/optical band succeeds the band-mapped survey is not contacted.  *)
(***************************************************************************)
C1_SavedAttemptEndsLoop ==
    /\ \A i, j \in 1..Len(calls) :
         (i < j /\ calls[i].kind \in AcquisitionKinds /\ calls[j].kind \in AcquisitionKinds)
            => calls[i].attempt <= calls[j].attempt
    /\ ImageSaved =>
         /\ pc \notin LoopPcs
         /\ failure.kind # "exhausted"
         /\ request.image_url = ArtifactPath(request.request_id, "image.jpg")
         /\ Len(errors) = idx - 1
         /\ \A i \in 1..Len(calls) :
              calls[i].kind \in AcquisitionKinds => calls[i].attempt <= idx
         /\ (idx = 1 /\ attempts[1] = <<"SDSS", NONE>>) =>
              \A i \in 1..Len(calls) : calls[i].kind # "skyview"

\* The first of two attempts succeeded and the run went on to its end.
C1_Witness ==
    /\ ImageSaved
    /\ Len(attempts) = 2
    /\ idx = 1
    /\ pc = "done"

(***************************************************************************)
(* C2: a failure inside an attempt (no URL, no link, transport error,      *)
(* non-2xx status, failed save) is caught and recorded as exactly one      *)
(* entry labelled with that attempt, after the earlier entries; while      *)
(* attempts remain the next one is tried and nothing is raised or yielded. *)
(***************************************************************************)
AttemptStepSucceeds ==
    \/ pc = "attempt" /\ pc' = "download"
    \/ pc = "download" /\ pc' = "save"
    \/ pc = "save" /\ "image.jpg" \in store'.files

C2_AttemptFailureContinues ==
    [][(pc \in LoopPcs /\ ~AttemptStepSucceeds) =>
          /\ Len(errors') = Len(errors) + 1
          /\ SubSeq(errors', 1, Len(errors)) = errors
          /\ errors'[Len(errors')].label = Label(attempts[idx])
          /\ errors'[Len(errors')].attempt = idx
          /\ idx < Len(attempts) =>
                /\ pc' = "attempt"
                /\ idx' = idx + 1
                /\ failure' = NoFailure
                /\ events' = events]_vars

\* The first attempt failed at its download and the fallback attempt is running.
C2_Witness ==
    /\ Len(errors) = 1
    /\ errors[1].cause = "download_status"
    /\ idx = 2
    /\ pc = "download"

(***************************************************************************)
(* C3: when every planned attempt has failed, acquisition has raised the   *)
(* exhaustion error, once, and it carries exactly one labelled entry per   *)
(* attempt, in attempt order: as many entries as planned attempts.         *)
(***************************************************************************)
C3_ExhaustionCarriesEveryError ==
    /\ AllAttemptsFailed => failure.kind = "exhausted"
    /\ failure.kind = "exhausted" =>
         /\ failure.n = Len(attempts)
         /\ Len(failure.errors) = Len(attempts)
         /\ \A i \in 1..Len(failure.errors) :
              /\ failure.errors[i].attempt = i
              /\ failure.errors[i].label = Label(attempts[i])
         /\ pc \in {"done", "raised"}

\* Both attempts of a visible/optical band failed.
C3_Witness ==
    /\ failure.kind = "exhausted"
    /\ Len(attempts) = 2
    /\ Len(failure.errors) = 2

(***************************************************************************)
(* C4: the event sequence of AgentRunner.run_stream never holds more than  *)
(* one terminal event (end or error); a terminal event is the last event   *)
(* and the stream is over; a stream that is over holds exactly one.        *)
(***************************************************************************)
C4_ExactlyOneTerminalEvent ==
    entry = "AgentRunner.run_stream" =>
        /\ Cardinality(TerminalEvents) <= 1
        /\ TerminalEvents # {} => (TerminalEvents = {Len(events)} /\ pc = "done")
        /\ pc = "done" => TerminalEvents = {Len(events)}
        /\ pc # "raised"

\* A stream that ends with error after the status events of a failed acquisition.
C4_Witness ==
    /\ entry = "AgentRunner.run_stream"
    /\ pc = "done"
    /\ Len(events) >= 2
    /\ events[Len(events)].type = "error"
    /\ events[1].type = "status"

(***************************************************************************)
(* C5: with every external call returning or failing and the stream        *)
(* consumed to its end, every run of AgentRunner.run_stream eventually     *)
(* emits a terminal event; the attempt list never holds more than two      *)
(* attempts and no stage is entered twice.                                 *)
(***************************************************************************)
NoStageTwice == \A i, j \in 1..Len(stages) : stages[i] = stages[j] => i = j

C5_TerminalEventEventually ==
    /\ [](Len(attempts) <= 2 /\ NoStageTwice)
    /\ (entry = "AgentRunner.run_stream") => <>(TerminalEvents # {})

\* The longest run: two attempts, then the three analysis stages, then end.
C5_Witness ==
    /\ entry = "AgentRunner.run_stream"
    /\ Len(attempts) = 2
    /\ Len(errors) = 1
    /\ Len(AnalysisStagesEntered) = 3
    /\ events[Len(events)].type = "end"

(***************************************************************************)
(* C6: AgentRunner.run never lets an exception through: whatever failed    *)
(* (enrichment, name resolution, exhausted acquisition, an analysis        *)
(* stage), it returns a response with status error, the caller's           *)
(* request_id, the caller-facing summary, and no results and no artifacts. *)
(***************************************************************************)
C6_RunConvertsFailures ==
    entry = "AgentRunner.run" =>
        /\ pc # "raised"
        /\ failure.kind # "none" =>
             /\ pc = "done"
             /\ result.status = "error"
             /\ result.request_id = original.request_id
             /\ result.summary = "error_summary"
             /\ result.results = {}
             /\ result.artifacts = <<>>
        /\ (pc = "done" /\ failure.kind = "none") => result.status = "success"

\* run returned the error response after an analysis stage failed.
C6_Witness ==
    /\ entry = "AgentRunner.run"
    /\ failure.kind = "save_measurements"
    /\ result.status = "error"

(***************************************************************************)
(* C7: when every attempt of the acquisition has failed (name resolution   *)
(* included) the run is over, failed with the exhaustion error; no         *)
(* analysis stage was entered, no Segmentando / Calculando / Generando     *)
(* status was emitted and no mask, measurements or report was written.     *)
(***************************************************************************)
C7_FailedAcquisitionSkipsAnalysis ==
    AllAttemptsFailed =>
        /\ pc \in {"done", "raised"}
        /\ failure.kind = "exhausted"
        /\ AnalysisStagesEntered = <<>>
        /\ StatusBodies \cap AnalysisStatus = {}
        /\ store.files \cap AnalysisFiles = {}
        /\ entry = "AgentRunner.run_stream" => events[Len(events)].type = "error"
        /\ entry = "AgentRunner.run" => result.status = "error"

\* The name could not be resolved in either attempt of a run with an analysis task.
C7_Witness ==
    /\ AllAttemptsFailed
    /\ Len(errors) = 2
    /\ errors[1].cause = "sesame"
    /\ errors[2].cause = "sesame"
    /\ request.task = "morphology_summary"

(***************************************************************************)
(* C8: in TaskOrchestrator.run_stream the task fixes the analysis stages:  *)
(* the stages entered are always a prefix of Segmenting, Measuring,        *)
(* Summarizing that stops at the task's halt point, and a run that ends    *)
(* with `end` has entered exactly the task's stages; morphology_summary    *)
(* has then written the report and lists it.                               *)
(***************************************************************************)
StagesOf(task) ==
    CASE task = "segment" -> <<"Segmenting">>
      [] task = "measure_basic" -> <<"Segmenting", "Measuring">>
      [] task = "morphology_summary" -> <<"Segmenting", "Measuring", "Summarizing">>
      [] OTHER -> <<>>

C8_TaskFixesStages ==
    request.task \in {"segment", "measure_basic", "morphology_summary"} =>
        /\ IsPrefix(AnalysisStagesEntered, StagesOf(request.task))
        /\ OrchestratorEnded =>
             /\ AnalysisStagesEntered = StagesOf(request.task)
             /\ request.task = "morphology_summary" =>
                  /\ "report.txt" \in store.files
                  /\ \E i \in 1..Len(response.artifacts) :
                        response.artifacts[i] = Artifact("report", "report.txt")

\* A measure_basic run that ended after Measuring.
C8_Witness ==
    /\ request.task = "measure_basic"
    /\ OrchestratorEnded
    /\ AnalysisStagesEntered = <<"Segmenting", "Measuring">>

(***************************************************************************)
(* C9 (as stated): a fetch_image run of TaskOrchestrator.run_stream that   *)
(* ends with `end`, for a request whose image the run acquired or whose    *)
(* image reference the caller supplied (image_url is not None), entered no *)
(* analysis stage and its response carries exactly one artifact, of type   *)
(* image, a caption as summary and empty results.                          *)
(***************************************************************************)
C9_FetchImageCarriesOneImage ==
    (/\ request.task = "fetch_image"
     /\ OrchestratorEnded
     /\ (attempts # <<>> \/ original.image_url # NONE)) =>
        /\ AnalysisStagesEntered = <<>>
        /\ Len(response.artifacts) = 1
        /\ response.artifacts[1].type = "image"
        /\ response.summary = "caption"
        /\ response.results = {}

(***************************************************************************)
(* C10: with a catalog hint the plan is the single attempt (catalog, none) *)
(* whatever the band hint; every call of the acquisition belongs to that   *)
(* attempt, and its failure is the exhaustion error after one attempt.     *)
(***************************************************************************)
C10_CatalogHintDisablesFallback ==
    (Truthy(request.catalog) /\ attempts # <<>>) =>
        /\ attempts = << <<Strip(request.catalog), NONE>> >>
        /\ \A i \in 1..Len(calls) :
              calls[i].kind \in AcquisitionKinds => calls[i].attempt = 1
        /\ errors # <<>> =>
              /\ failure.kind = "exhausted"
              /\ failure.n = 1
              /\ Len(failure.errors) = 1
              /\ pc \in {"done", "raised"}

\* Catalog GALEX with band visible: the survey query failed and the run is over.
C10_Witness ==
    /\ request.catalog = "GALEX"
    /\ request.band = "visible"
    /\ failure.kind = "exhausted"
    /\ Len(calls) >= 1
    /\ calls[Len(calls)].kind = "skyview"

(***************************************************************************)
(* C11: with no catalog hint and a band hint that is visible or optical    *)
(* once trimmed and lower-cased, the planned list is exactly the SDSS      *)
(* attempt followed by the attempt of the (trimmed) band.                  *)
(***************************************************************************)
VisibleOrOptical(band) == Truthy(band) /\ Lower(Strip(band)) \in {"visible", "optical"}

C11_VisibleBandPlansSdssThenBand ==
    (attempts # <<>> /\ ~Truthy(request.catalog) /\ VisibleOrOptical(request.band)) =>
        attempts = << <<"SDSS", NONE>>, <<NONE, Strip(request.band)>> >>

\* Band " Optical ": the SDSS attempt failed and the band attempt is running.
C11_Witness ==
    /\ ~Truthy(request.catalog)
    /\ request.band = " Optical "
    /\ Len(attempts) = 2
    /\ idx = 2
    /\ pc = "download"

(***************************************************************************)
(* C12: with no catalog hint, a band hint that is set and is not visible   *)
(* or optical plans the single attempt of the (trimmed) band; with neither *)
(* hint set the plan is the single SDSS attempt.                           *)
(***************************************************************************)
C12_OtherBandOrNoHintPlansOne ==
    (attempts # <<>> /\ ~Truthy(request.catalog)) =>
        /\ (Truthy(request.band) /\ ~VisibleOrOptical(request.band)) =>
              attempts = << <<NONE, Strip(request.band)>> >>
        /\ ~Truthy(request.band) => attempts = << <<"SDSS", NONE>> >>

\* Band infrared: its only attempt got a URL from the survey service.
C12_Witness ==
    /\ ~Truthy(request.catalog)
    /\ request.band = "infrared"
    /\ attempts = << <<NONE, "infrared">> >>
    /\ pc = "download"

(***************************************************************************)
(* C13 (as stated): whatever the catalog and band hints (absent, empty,    *)
(* whitespace-only or non-empty), once the plan is made the attempt list   *)
(* is not empty and every attempt has exactly one of catalog and band set  *)
(* to a non-empty value.                                                   *)
(***************************************************************************)
Planned == \E i \in 1..Len(stages) : stages[i] = "AcquiringImage"

C13_PlanNonEmptyOneFieldSet ==
    Planned =>
        /\ attempts # <<>>
        /\ \A i \in 1..Len(attempts) :
              Truthy(attempts[i][1]) # Truthy(attempts[i][2])

(***************************************************************************)
(* C14 (as stated): with no catalog hint and a band hint that is not in    *)
(* the band-to-survey table, the request fails before any network call:    *)
(* the name resolver, the survey service and the download are never        *)
(* contacted, by name or by coordinates, and the failure is not recorded   *)
(* as an attempt failure nor raised as the exhaustion of the attempts.     *)
(***************************************************************************)
UnmappedBand(band) ==
    /\ Truthy(band)
    /\ Strip(band) # ""
    /\ BandToSurveyGet(Lower(Strip(band))) = NONE

TargetGiven(req) == req.target # NONE /\ (req.coords \/ Strip(req.target) # "")

C14_UnmappedBandFailsBeforeNetwork ==
    (TargetGiven(request) /\ ~Truthy(request.catalog) /\ UnmappedBand(request.band)) =>
        /\ \A i \in 1..Len(calls) : calls[i].kind \notin AcquisitionKinds
        /\ errors = <<>>
        /\ failure.kind # "exhausted"

(***************************************************************************)
(* C15 (as stated): during one run the name-resolution service is          *)
(* contacted at most once, however many attempts are executed.             *)
(***************************************************************************)
SesameCalls == {i \in 1..Len(calls) : calls[i].kind = "sesame"}

C15_ResolverContactedAtMostOnce == Cardinality(SesameCalls) <= 1

(***************************************************************************)
(* C16 (as stated): the name resolver is never invoked in a run whose      *)
(* request carries an image reference or both coordinates; in every other  *)
(* run that reaches acquisition (its first attempt has been through URL    *)
(* resolution) the resolver has been invoked with the target name.         *)
(***************************************************************************)
ResolveStepDone(k) == k < idx \/ (k = idx /\ pc # "attempt")

C16_ResolverInvokedInEveryOtherRun ==
    /\ (original.image_url # NONE \/ request.coords) => SesameCalls = {}
    /\ (attempts # <<>> /\ ~request.coords /\ ResolveStepDone(1)) =>
          \E i \in SesameCalls : calls[i].arg = Strip(request.target)

(***************************************************************************)
(* C16 (amended): the name resolver is never invoked in a run whose        *)
(* request carries an image reference or both coordinates, nor when the    *)
(* target name is blank; in every other run that reaches acquisition each  *)
(* attempt that has been through URL resolution invoked the resolver       *)
(* exactly once, with the trimmed target name.                             *)
(***************************************************************************)
C16_ResolverInvokedForNamedTarget ==
    /\ (original.image_url # NONE \/ request.coords) => SesameCalls = {}
    /\ (request.target # NONE /\ Strip(request.target) = "") => SesameCalls = {}
    /\ (attempts # <<>> /\ ~request.coords /\ Strip(request.target) # "") =>
          \A k \in 1..Len(attempts) :
              ResolveStepDone(k) =>
                  /\ Cardinality({i \in SesameCalls : calls[i].attempt = k}) = 1
                  /\ \A i \in SesameCalls : calls[i].arg = Strip(request.target)

\* Target M81 without coordinates: the resolver was given "M81" and the SDSS
\* URL is being downloaded.
C16_Witness ==
    /\ ~request.coords
    /\ request.target = "M81"
    /\ Len(calls) = 1
    /\ calls[1].kind = "sesame"
    /\ calls[1].arg = "M81"
    /\ pc = "download"

(***************************************************************************)
(* C17: a request that carries an image reference plans no attempt,        *)
(* contacts no resolver, catalog or survey, writes no image file, and      *)
(* every image artifact is that reference unchanged (a non-empty reference *)
(* is the one image artifact of the response); a request that carries none *)
(* and has a target has planned, acquired and saved its image before any   *)
(* analysis stage is entered.                                              *)
(***************************************************************************)
ImageArtifactsOf(arts) == {i \in 1..Len(arts) : arts[i].type = "image"}

StageIndex(name) == {i \in 1..Len(stages) : stages[i] = name}

C17_SuppliedImageSkipsAcquisition ==
    /\ original.image_url # NONE =>
         /\ attempts = <<>>
         /\ \A i \in 1..Len(calls) : calls[i].kind \notin AcquisitionKinds
         /\ ~ImageSaved
         /\ \A i \in ImageArtifactsOf(artifacts) : artifacts[i].path = original.image_url
         /\ \A i \in ImageArtifactsOf(response.artifacts) :
               response.artifacts[i].path = original.image_url
         /\ (Truthy(original.image_url) /\ OrchestratorEnded) =>
               /\ ImageArtifactsOf(response.artifacts) = {1}
               /\ response.artifacts[1] = [type |-> "image", path |-> original.image_url]
    /\ (original.image_url = NONE /\ request.target # NONE
            /\ AnalysisStagesEntered # <<>>) =>
         /\ attempts # <<>>
         /\ ImageSaved
         /\ request.image_url = ArtifactPath(request.request_id, "image.jpg")
         /\ \A i \in StageIndex("AcquiringImage"), j \in 1..Len(stages) :
               IsAnalysisStage(stages[j]) => i < j
         /\ StageIndex("AcquiringImage") # {}

\* A segment run on a supplied image reference ended with the reference and the mask.
C17_Witness ==
    /\ original.image_url = SUPPLIED
    /\ request.task = "segment"
    /\ OrchestratorEnded
    /\ Len(response.artifacts) = 2
    /\ response.artifacts[1].path = SUPPLIED

(***************************************************************************)
(* C18: a run whose stream ends with `end` has emitted exactly one summary *)
(* event, before the end event, and exactly one end event, which carries   *)
(* the full response, its summary being the text of the summary event; a   *)
(* run of AgentRunner.run_stream that fails has emitted exactly one error  *)
(* event, the last one, and no summary and no end event.                   *)
(***************************************************************************)
EventsOfType(t) == {i \in 1..Len(events) : events[i].type = t}

C18_SummaryThenEndOrOneError ==
    /\ (events # <<>> /\ events[Len(events)].type = "end") =>
         /\ Cardinality(EventsOfType("summary")) = 1
         /\ EventsOfType("end") = {Len(events)}
         /\ EventsOfType("error") = {}
         /\ \A i \in EventsOfType("summary") :
               /\ i < Len(events)
               /\ events[Len(events)].body.summary = events[i].body
         /\ events[Len(events)].body = response
         /\ response.request_id = original.request_id
         /\ response.artifacts = artifacts
         /\ response.results = results
         /\ failure.kind = "none"
    /\ (entry = "AgentRunner.run_stream" /\ failure.kind # "none") =>
         /\ pc = "done"
         /\ EventsOfType("error") = {Len(events)}
         /\ EventsOfType("summary") = {}
         /\ EventsOfType("end") = {}
    /\ (entry = "AgentRunner.run_stream" /\ pc = "done" /\ failure.kind = "none") =>
         events[Len(events)].type = "end"

\* A stream that ended: statuses, summary, artifacts, end.
C18_Witness ==
    /\ entry = "AgentRunner.run_stream"
    /\ pc = "done"
    /\ Len(events) >= 5
    /\ events[Len(events)].type = "end"
    /\ events[Len(events) - 1].type = "artifacts"
    /\ events[Len(events) - 2].type = "summary"

(***************************************************************************)
(* C19 (as stated): every stage a run enters (ResolvingTarget,             *)
(* AcquiringImage, Segmenting, Measuring, Summarizing) is announced by its *)
(* own status event before its work begins, one status event per stage     *)
(* transition: when the k-th stage of the run is entered, exactly k status *)
(* events have been emitted.  ResolvingTarget is entered by the first call *)
(* of the name resolver.                                                   *)
(***************************************************************************)
IsStatus(e) == e.type = "status"

StatusEvents == SelectSeq(events, IsStatus)

IsPipelineStage(s) == s # "Start"

EntersPipelineStage ==
    /\ stages' # stages
    /\ IsPipelineStage(stages'[Len(stages')])

EntersResolvingTarget == SesameCalls = {} /\ SesameCalls' # {}

StagesEnteredCount ==
    Len(SelectSeq(stages, IsPipelineStage)) + (IF SesameCalls # {} THEN 1 ELSE 0)

C19_EveryStageHasOwnStatus ==
    [][(EntersPipelineStage \/ EntersResolvingTarget) =>
          Len(StatusEvents) = StagesEnteredCount']_vars

(***************************************************************************)
(* C19 (amended): acquisition (name resolution and image acquisition       *)
(* together) is announced by one status event emitted before planning, and *)
(* its success by the status event "Imagen descargada."; each of           *)
(* Segmenting, Measuring and Summarizing is announced by its own status    *)
(* event, the last event emitted before that stage's work begins; status   *)
(* events appear in state order, each at most once.                        *)
(***************************************************************************)
StatusOrder ==
    <<"Resolviendo galaxia y descargando imagen", "Imagen descargada.",
      "Segmentando imagen", "Calculando medidas", "Generando resumen">>

StatusRank(msg) == CHOOSE k \in 1..Len(StatusOrder) : StatusOrder[k] = msg

StageStatus(stage) ==
    CASE stage = "AcquiringImage" -> StatusOrder[1]
      [] stage = "Segmenting" -> StatusOrder[3]
      [] stage = "Measuring" -> StatusOrder[4]
      [] OTHER -> StatusOrder[5]

StatusInStateOrder ==
    \A i, j \in 1..Len(StatusEvents) :
        i < j => StatusRank(StatusEvents[i].body) < StatusRank(StatusEvents[j].body)

C19_StagesAnnouncedInOrder ==
    /\ [](/\ StatusInStateOrder
          /\ (\E i \in 1..Len(calls) : calls[i].kind \in AcquisitionKinds) =>
                (StatusEvents # <<>> /\ StatusEvents[1].body = StatusOrder[1])
          /\ ImageSaved <=> StatusOrder[2] \in StatusBodies)
    /\ [][EntersPipelineStage =>
            /\ events # <<>>
            /\ events[Len(events)] = Status(StageStatus(stages'[Len(stages')]))]_vars

\* A morphology_summary run by name that went through every stage.
C19_Witness ==
    /\ Len(StatusEvents) = 5
    /\ SesameCalls # {}
    /\ Len(AnalysisStagesEntered) = 3

(***************************************************************************)
(* C20 (as stated): two runs, sequential or interleaved, whose request     *)
(* identifiers are different strings write disjoint sets of file paths in  *)
(* the artifact store, whatever the two strings.                           *)
(***************************************************************************)
C20_DifferentIdsWriteDisjointPaths ==
    \A i, j \in DOMAIN runs :
        (i # j /\ runs[i].id # runs[j].id) =>
            runs[i].written \cap runs[j].written = {}

(***************************************************************************)
(* C21 (as stated): each artifact file is written at most once: no         *)
(* sequence or interleaving of runs saves image.jpg, mask.png,             *)
(* measurements.json or report.txt at a path where a file was saved        *)
(* before, so a file a response refers to is never overwritten.            *)
(***************************************************************************)
SavesAt(k, path) ==
    /\ runs[k].todo # <<>>
    /\ path = FilePath(runs[k].id, Head(runs[k].todo))
    /\ path \notin runs[k].written
    /\ path \in runs'[k].written

C21_FilesWrittenAtMostOnce ==
    [][\A k \in DOMAIN runs : \A path \in runs'[k].written :
          SavesAt(k, path) => path \notin disk]_vars

(***************************************************************************)
(* Vocabulary of the analyzer properties.                                  *)
(***************************************************************************)
ShapeMismatch == "image and mask must have the same shape"
MeasuredCalls == {analysis.measured[i] : i \in DOMAIN analysis.measured}
SegmentationsReturned ==
    {analysis.segmentations[i] : i \in {j \in DOMAIN analysis.segmentations :
                                           analysis.segmentations[j].error = ""}}
AllZeroMeasurements(m) ==
    /\ m.area_pixels = 0
    /\ IsZero(m.centroid_x)
    /\ IsZero(m.centroid_y)
    /\ m.ellipticity.minor2 = m.ellipticity.major2
    /\ IsZero(m.mean_intensity)
MeasurementKeys == {"error", "area_pixels", "centroid_x", "centroid_y", "ellipticity",
                    "mean_intensity"}

(***************************************************************************)
(* C26: measure_basic fails with the shape-mismatch error whenever the     *)
(* dimensions of image and mask differ, whatever the mask holds (an        *)
(* all-zero mask too), and does not fail when the dimensions are equal.    *)
(***************************************************************************)
C26_ShapeMismatchIffShapesDiffer ==
    \A m \in MeasuredCalls :
        IF Shape(m.image) # Shape(m.mask)
        THEN m.measurements.error = ShapeMismatch
        ELSE m.measurements.error = ""

C26_Witness ==
    \E m \in MeasuredCalls :
        /\ m.source = "mask"
        /\ Shape(m.image) = <<2, 2>>
        /\ Shape(m.mask) = <<1, 2>>
        /\ Indices(m.mask) = {}
        /\ m.measurements.error = ShapeMismatch

(***************************************************************************)
(* C27: for an image and a mask of the same shape with no pixel set,       *)
(* measure_basic returns area_pixels, centroid_x, centroid_y, ellipticity  *)
(* and mean_intensity all 0 and raises no error.                           *)
(***************************************************************************)
C27_EmptyMaskMeasuresZero ==
    \A m \in MeasuredCalls :
        (Shape(m.image) = Shape(m.mask) /\ Indices(m.mask) = {})
            => /\ m.measurements.error = ""
               /\ AllZeroMeasurements(m.measurements)

C27_Witness ==
    \E m \in MeasuredCalls :
        /\ m.source = "mask"
        /\ Shape(m.image) = <<2, 2>>
        /\ Shape(m.mask) = <<2, 2>>
        /\ Indices(m.mask) = {}
        /\ ArrayMin(m.image) > 0
        /\ m.measurements.error = ""
        /\ AllZeroMeasurements(m.measurements)

C29_MaskIsBinaryThresholdOfImage ==
    \A s \in SegmentationsReturned :
        /\ Shape(s.mask) = Shape(analysis.image)
        /\ \A p \in Positions(s.mask) : At(s.mask, p) \in {0, 1}
        /\ s.threshold = Quantile(normalize_image(analysis.image), [num |-> 3, den |-> 4])
        /\ \A p \in Positions(s.mask) :
              At(s.mask, p) = 1
                  <=> /\ ~HasNan(analysis.image)
                      /\ 4 * (At(analysis.image, p) - ArrayMin(analysis.image))
                             >= s.threshold.num
        /\ s.mask_pixels = Cardinality({p \in Positions(s.mask) : At(s.mask, p) = 1})
        /\ s.algorithm = "quantile_threshold"

C29_Witness ==
    \E s \in SegmentationsReturned :
        /\ Shape(analysis.image) = <<2, 2>>
        /\ ~HasNan(analysis.image)
        /\ s.threshold.num % 4 # 0
        /\ s.mask_pixels = 1

(***************************************************************************)
(* C30 (as stated): for every image with at least one pixel, measure_basic *)
(* on the image and the mask segment_galaxy produced for it returns the    *)
(* five measurements with area_pixels > 0 and equal to the segmentation's  *)
(* mask_pixels: segment_galaxy never yields an empty mask.                 *)
(***************************************************************************)
C30_SegmentationMaskNeverEmpty ==
    \A m \in {c \in MeasuredCalls : c.source = "segmentation"} :
        Positions(m.image) # {}
            => /\ m.measurements.error = ""
               /\ DOMAIN m.measurements = MeasurementKeys
               /\ m.measurements.area_pixels > 0
               /\ m.measurements.area_pixels = analysis.segmentations[1].mask_pixels

(***************************************************************************)
(* C30 (amended): for every image with at least one pixel whose            *)
(* intensities are all finite numbers, measure_basic on the image and the  *)
(* mask segment_galaxy produced for it returns the five measurements with  *)
(* area_pixels > 0 and equal to the segmentation's mask_pixels (a constant *)
(* image included); for an image with a NaN the mask is empty and          *)
(* measure_basic returns its all-zero result.                              *)
(***************************************************************************)
C30_FiniteImageMaskNeverEmpty ==
    \A m \in {c \in MeasuredCalls : c.source = "segmentation"} :
        /\ (Positions(m.image) # {} /\ ~HasNan(m.image))
              => /\ m.measurements.error = ""
                 /\ DOMAIN m.measurements = MeasurementKeys
                 /\ m.measurements.area_pixels > 0
                 /\ m.measurements.area_pixels = analysis.segmentations[1].mask_pixels
        /\ HasNan(m.image)
              => /\ analysis.segmentations[1].mask_pixels = 0
                 /\ AllZeroMeasurements(m.measurements)

C30_Witness ==
    \E m \in {c \in MeasuredCalls : c.source = "segmentation"} :
        /\ Shape(m.image) = <<2, 2>>
        /\ ~HasNan(m.image)
        /\ ArrayMax(m.image) = ArrayMin(m.image)
        /\ m.measurements.area_pixels = 4
        /\ analysis.segmentations[1].mask_pixels = 4

(***************************************************************************)
(* C23 (as stated): a run for a request with a target name, task segment   *)
(* and catalog SDSS in which the name resolution and the download of one   *)
(* attempt succeed ends with status "success", a segmentation with         *)
(* mask_pixels > 0 and exactly one artifact of type mask in the response.  *)
(***************************************************************************)
NamedSdssSegmentRequest ==
    /\ original.target # NONE
    /\ Strip(original.target) # ""
    /\ original.task = "segment"
    /\ original.catalog = "SDSS"
    /\ original.image_url = NONE

ResolvedAndDownloaded ==
    \E i, j \in 1..Len(calls) :
        /\ calls[i].kind = "sesame" /\ calls[i].outcome = "ok"
        /\ calls[j].kind = "download" /\ calls[j].outcome = "ok"
        /\ calls[i].attempt = calls[j].attempt

MaskArtifacts(arts) == {i \in 1..Len(arts) : arts[i].type = "mask"}

SegmentSucceeded ==
    /\ failure.kind = "none"
    /\ response.status = "success"
    /\ Cardinality(MaskArtifacts(response.artifacts)) = 1
    /\ analysis.segmentations # <<>>
    /\ analysis.segmentations[1].mask_pixels > 0

C23_ResolvedAndDownloadedEndsInSuccess ==
    (pc = "done" /\ NamedSdssSegmentRequest /\ ResolvedAndDownloaded) => SegmentSucceeded

(***************************************************************************)
(* C23 (amended): a run for a request with a target name, task segment and *)
(* catalog SDSS in which the name resolution and the download succeed, the *)
(* downloaded image is saved and loaded again and the mask is saved, ends  *)
(* with status "success", a segmentation with mask_pixels > 0 and exactly  *)
(* one artifact of type mask in the response.                              *)
(***************************************************************************)
C23_AcquiredAndSavedEndsInSuccess ==
    (/\ pc = "done"
     /\ NamedSdssSegmentRequest
     /\ ResolvedAndDownloaded
     /\ ImageSaved
     /\ "mask.png" \in store.files) => SegmentSucceeded

C23_Witness ==
    /\ pc = "done"
    /\ NamedSdssSegmentRequest
    /\ original.target = "M81"
    /\ ~original.coords
    /\ ResolvedAndDownloaded
    /\ ImageSaved
    /\ SegmentSucceeded
    /\ events[Len(events)].type = "end"
    /\ events[Len(events)].body.status = "success"
    /\ analysis.segmentations[1].mask_pixels = 1

(***************************************************************************)
(* Vocabulary of the coordinate properties.                                *)
(***************************************************************************)
ResolvedTargets == {geo.resolved[i] : i \in DOMAIN geo.resolved}
SdssUrls == {geo.url[i] : i \in DOMAIN geo.url}
RaNormalized(x) == 0 <= x.whole /\ x.whole < 360
DecNormalized(x) == ~LessThan(x, Num(-90, 0)) /\ ~LessThan(Num(90, 0), x)
RoundedDecInRange(x) == -90 <= x.whole /\ (x.whole < 90 \/ (x.whole = 90 /\ x.micro = 0))
ScaleFromWidth(u) ==
    LET num == geo.query.size_arcmin * 6000
    IN  IF num < 150 * u.width THEN u.scale = 150
        ELSE IF num > 600000 * u.width THEN u.scale = 600000
        ELSE /\ 2 * (u.scale * u.width - num) <= u.width
             /\ 2 * (num - u.scale * u.width) <= u.width
SizesAndScaleInRange(u) ==
    /\ u.width = u.height
    /\ 64 <= u.width /\ u.width <= 2048
    /\ 150 <= u.scale /\ u.scale <= 600000
    /\ ScaleFromWidth(u)
    /\ geo.query.ra = Num(370, 0) => u.ra = [whole |-> 10, micro |-> 0]
    /\ geo.query.dec = Num(95, 0) => u.dec = [whole |-> 90, micro |-> 0]
    /\ RoundedDecInRange(u.dec)

(***************************************************************************)
(* C24 (as stated): every ResolvedTarget returned by resolve_and_fetch has *)
(* ra_deg in [0, 360) and dec_deg in [-90, 90], whether the coordinates    *)
(* came from the caller or from the name resolver, on the SDSS path and on *)
(* the survey path.                                                        *)
(***************************************************************************)
C24_ResolvedTargetNormalized ==
    \A t \in ResolvedTargets : RaNormalized(t.ra_deg) /\ DecNormalized(t.dec_deg)

Cancelled == failure.kind = "GeneratorExit"

WellFormedBody(text) == \A i \in DOMAIN text : text[i] # "%J 1.2.3 4"

C31_NothingFoundMeansNotFound ==
    \A r \in {reply.results[i] : i \in DOMAIN reply.results} :
        WellFormedBody(reply.body) =>
            IF FirstJpos(reply.body) = 0
               \/ \E i \in DOMAIN reply.body : reply.body[i] = "#! Nothing found"
            THEN ~r.ok
            ELSE /\ r.ok
                 /\ <<r.ra_deg, r.dec_deg>> = JposGroups(reply.body[FirstJpos(reply.body)])

(***************************************************************************)
(* C32 (as stated): when the body holds a link reference (href), the       *)
(* survey client returns a link reference wherever the references stand in *)
(* the document; an image-source reference (src) is returned only when the *)
(* body holds no link reference.                                           *)
(***************************************************************************)
HasItem(body, items) == \E i \in DOMAIN body : body[i] \in items

LinkUrls == {Absolute(Group(item)) : item \in AbsHrefs \cup RelHrefs}

C32_LinkReferencePreferred ==
    \A i \in DOMAIN reply.results :
        (reply.service = "skyview" /\ HasItem(reply.body, AbsHrefs \cup RelHrefs)) =>
            /\ reply.results[i].ok
            /\ reply.results[i].url \in LinkUrls

(***************************************************************************)
(* C33 (as stated): the result of the survey client depends on the body    *)
(* only: two scans of the same body, cut into chunks in two ways, return   *)
(* the same URL or the same failure.                                       *)
(***************************************************************************)
C33_ResultIndependentOfChunking ==
    \A i, j \in DOMAIN reply.results :
        reply.service = "skyview" => reply.results[i] = reply.results[j]

(***************************************************************************)
(* C34: AgentRunner.run and AgentRunner.run_stream agree.  Both execute    *)
(* the same steps on the same request and the same answers of their        *)
(* collaborators, which leave either an exception (failure) or the         *)
(* response of the pipeline or of an early exit.  run returns status error *)
(* exactly when an exception was raised, and that is exactly when the      *)
(* stream's last event is `error`; otherwise run's return value and the    *)
(* payload of the stream's `end` event are both that response.             *)
(***************************************************************************)
Raised == failure.kind # "none"

LastEvent == events[Len(events)]

AgentRunnerEntries == {"AgentRunner.run", "AgentRunner.run_stream"}

NoTargetNamed(req) ==
    /\ ~Truthy(req.image_url)
    /\ \/ req.target = NONE
       \/ Strip(req.target) \in {"", "from conversation"}

\* The guard has been passed by a request that is declined or names no target.
DeclinedOrBlank ==
    /\ entry \in AgentRunnerEntries
    /\ pc \notin {"enrich", "guard"}
    /\ failure.kind # "enrich"
    /\ request.out_of_scope \/ NoTargetNamed(request)

EarlyText == IF request.out_of_scope THEN "decline_message" ELSE "ask_for_target"

EarlyPayload ==
    [request_id |-> original.request_id, status |-> "success", summary |-> EarlyText,
     results |-> {}, artifacts |-> <<>>]

C35_EarlyExitEntersNoStage ==
    DeclinedOrBlank =>
        /\ stages = <<>>
        /\ calls = <<>>
        /\ store = [dir |-> FALSE, files |-> {}]
        /\ artifacts = <<>>
        /\ ~Raised
        /\ response = EarlyPayload
        /\ entry = "AgentRunner.run" => (pc = "done" /\ result = EarlyPayload /\ events = <<>>)
        /\ entry = "AgentRunner.run_stream" =>
             /\ pc \in {"end", "done"}
             /\ Len(events) = IF pc = "done" THEN 2 ELSE 1
             /\ events[1] = [type |-> "summary", body |-> EarlyText]
             /\ pc = "done" => (events[2].type = "end" /\ events[2].body = EarlyPayload)

\* The stream of a request that names no target has ended after the request
\* for a target.
C35_Witness ==
    /\ DeclinedOrBlank
    /\ entry = "AgentRunner.run_stream"
    /\ pc = "done"
    /\ ~request.out_of_scope
    /\ request.target = "from conversation"
    /\ Len(events) = 2

(***************************************************************************)
(* C36 (as stated): a request that identifies its target by coordinates    *)
(* only (ra_deg and dec_deg in the options, no target name or a blank one, *)
(* no image reference) reaches the image acquisition, which uses the       *)
(* coordinates and does not contact the name resolver, through AgentRunner *)
(* and through TaskOrchestrator.run_stream alike.                          *)
(***************************************************************************)
CoordinatesOnly ==
    /\ original.image_url = NONE
    /\ original.coords
    /\ ~original.message
    /\ request.coords
    /\ ~request.out_of_scope
    /\ request.target = NONE \/ Strip(request.target) = ""

RunOver == pc \in {"done", "raised"} /\ failure.kind # "enrich"

C36_CoordinatesReachAcquisition ==
    (CoordinatesOnly /\ RunOver) =>
        /\ Planned
        /\ \E i \in 1..Len(calls) : calls[i].kind # "sesame"
        /\ SesameCalls = {}

(***************************************************************************)
(* C37: when TaskOrchestrator.run_stream has emitted `end`, every artifact *)
(* of the end event that the run produced (image.jpg, mask.png,            *)
(* measurements.json, report.txt) is a file this run has written in the    *)
(* directory of the request; the artifacts stand in production order       *)
(* (image, mask, measurements, report); and the `artifacts` event stands   *)
(* between summary and end exactly when the list is not empty.             *)
(***************************************************************************)
StoreFiles == {"image.jpg", "mask.png", "measurements.json", "report.txt"}

\* The artifact was produced by the run: its path is a file of the request.
Produced(art) == \E file \in StoreFiles : art.path = ArtifactPath(request.request_id, file)

Written(art) ==
    \E file \in store.files : art.path = ArtifactPath(request.request_id, file)

ProductionRank(art) ==
    CASE art.type = "image" -> 1
      [] art.type = "mask" -> 2
      [] art.path = ArtifactPath(request.request_id, "measurements.json") -> 3
      [] OTHER -> 4

C37_ListedArtifactsWrittenInOrder ==
    OrchestratorEnded =>
        LET arts == LastEvent.body.artifacts
            n == Len(events)
        IN  /\ arts = artifacts
            /\ \A i \in 1..Len(arts) : Produced(arts[i]) => (store.dir /\ Written(arts[i]))
            /\ \A i, j \in 1..Len(arts) :
                   i < j => ProductionRank(arts[i]) < ProductionRank(arts[j])
            /\ Cardinality(EventsOfType("artifacts")) = IF arts = <<>> THEN 0 ELSE 1
            /\ IF arts = <<>>
               THEN n >= 2 /\ events[n - 1].type = "summary"
               ELSE n >= 3 /\ events[n - 1].type = "artifacts" /\ events[n - 2].type = "summary"

\* A morphology summary of an acquired image has ended: four artifacts, four files.
C37_Witness ==
    /\ OrchestratorEnded
    /\ entry = "TaskOrchestrator.run_stream"
    /\ Len(LastEvent.body.artifacts) = 4
    /\ store.files = StoreFiles

(***************************************************************************)
(* C38 (as stated): a run of TaskOrchestrator.run_stream with an analysis  *)
(* task (segment, measure_basic, morphology_summary) that ends with status *)
(* success analysed an image that this run acquired or that the caller     *)
(* supplied, and its response lists an image artifact before the mask      *)
(* artifact.                                                               *)
(***************************************************************************)
AnalysisTasks == {"segment", "measure_basic", "morphology_summary"}

AcquiredByRun ==
    /\ ImageSaved
    /\ request.image_url = ArtifactPath(request.request_id, "image.jpg")

SuppliedByCaller == Truthy(original.image_url) /\ request.image_url = original.image_url

C38_SuccessAnalysedAcquiredOrSuppliedImage ==
    (/\ entry = "TaskOrchestrator.run_stream"
     /\ original.task \in AnalysisTasks
     /\ OrchestratorEnded
     /\ LastEvent.body.status = "success") =>
        LET arts == LastEvent.body.artifacts
        IN  /\ AcquiredByRun \/ SuppliedByCaller
            /\ \E i, j \in 1..Len(arts) :
                   i < j /\ arts[i].type = "image" /\ arts[j].type = "mask"

(***************************************************************************)
(* C39 (as stated): a run whose acquisition is exhausted leaves the        *)
(* artifact store unchanged: no file and no request directory is created   *)
(* for a request all of whose attempts failed.                             *)
(***************************************************************************)
EmptyStore == [dir |-> FALSE, files |-> {}]

DownloadSucceeded == \E i \in 1..Len(calls) : calls[i].kind = "download" /\ calls[i].outcome = "ok"

====
